---- MODULE Spec2Model ----
(***************************************************************************)
(* abl2tikz: reconstruction of one schematic view (Schematic.#parse) and   *)
(* the placement of stencils (PotentialComponent, PathComponent and        *)
(* ABLTransistorMapper .useAsStencil, Pin.findPosition).                   *)
(*                                                                         *)
(* Numbers.  The program computes with IEEE doubles; the model computes    *)
(* with exact fixed-point integers.  A drawing length (cm) is an integer   *)
(* number of 1/UNIT cm, a document length (inch) an integer number of      *)
(* 1/InRes inch, so that 2.54 * document length is a whole drawing length. *)
(* Distances are compared by their squares (sqrt is monotone).  Angles are *)
(* whole multiples of 90 degrees (the exact branches of Coordinate.rotate).*)
(*                                                                         *)
(* Objects.  A Coordinate is an object with identity that the program      *)
(* mutates in place; the model keeps them in `heap` and refers to them by  *)
(* index.  Net objects live in `netObjs`.  0 stands for undefined/null.    *)
(***************************************************************************)
EXTENDS Integers, Sequences, FiniteSets, TLC

VARIABLES
    phase,       \* position in Schematic.fromXML: "new", "wires", "instances",
                 \* "parsed", "error" (#parse threw before the wires),
                 \* "threw" (a placement threw)
    view,        \* the schematicview node handed to #parse: which sections it has
    error,       \* the message of the error #parse threw before the wires
    catalog,     \* ADS_COMPONENTS_MAP as it is now: the stencils are objects
                 \* that live as long as the program
    heap,        \* Coordinate objects: heap[id] = [x, y]
    coords,      \* Schematic.#coords: the coordinate list (ids into heap)
    nets,        \* Schematic.#nets: Map name -> Net, as a sequence of [key, net]
    netObjs,     \* Net objects: netObjs[id] = [netname, wires]
    wires,       \* Schematic.#wires: [net, coords]
    components,  \* Schematic.#components
    doc,         \* the instance records read so far, with what became of each
    uuids,       \* number of uuid() calls made so far
    out,         \* the lines printToStream has written to the sink
    sink         \* the sink: whether its last write returned false and no
                 \* drain has followed, and its listeners for "error", "drain"

vars == <<phase, view, error, catalog, heap, coords, nets, netObjs, wires,
          components, doc, uuids, out, sink>>

---------------------------------------------------------------------------
(* Bounds of the model *)

MaxWires == 2

MaxInstances == 2

MaxOriented == 1

MaxRotations == 2

---------------------------------------------------------------------------
(* Fixed point *)

UNIT == 10 * 100

InRes == 127 * UNIT

\* #parse(schematicView, scale = 2.54)
SCALE == 2540

\* a faulty search distance of 2
MaxSearchDistanceWide == 2 * UNIT

\* { distance: 1 /* max search distance */, coord: null }
MaxSearchDistance == 1 * UNIT

Abs(n) == IF n < 0 THEN -n ELSE n

\* `const x = v; F(x)`: v is computed once and F works on its value
With(v, F(_)) == CHOOSE y \in {F(x) : x \in {v}} : TRUE

RECURSIVE Gcd(_, _)
Gcd(a, b) == IF b = 0 THEN a ELSE Gcd(b, a % b)

\* scale * x for a document length x
ToDrawing(n) == (n * SCALE) \div InRes

---------------------------------------------------------------------------
(* Coordinate: the value operations (class Coordinate) *)

Coord(x, y) == [x |-> x, y |-> y]

\* equals(other): same x and same y
Equals(a, b) == a.x = b.x /\ a.y = b.y

\* getDistance(other), squared
Dist2(a, b) == (a.x - b.x) * (a.x - b.x) + (a.y - b.y) * (a.y - b.y)

Add(a, b) == Coord(a.x + b.x, a.y + b.y)

Subtract(a, b) == Coord(a.x - b.x, a.y - b.y)

\* scale(scaleX, scaleY) with fixed-point factors
ScaleBy(c, sx, sy) == Coord((c.x * sx) \div UNIT, (c.y * sy) \div UNIT)

\* a faulty normalization that adjusts the angle once
NormalizeAngleOnce(a) ==
    IF a <= -180 THEN a + 360
    ELSE IF a > 180 THEN a - 360
    ELSE a

\* the while loops that bring an angle into (-180, 180]
RECURSIVE NormalizeAngle(_)
NormalizeAngle(a) ==
    IF a <= -180 THEN NormalizeAngle(a + 360)
    ELSE IF a > 180 THEN NormalizeAngle(a - 360)
    ELSE a

\* a faulty rotation that turns clockwise
RotateClockwise(c, angle) ==
    LET a == NormalizeAngle(angle) IN
    CASE a = 0 -> c
      [] a = 90 -> Coord(c.y, -c.x)
      [] a = 180 -> Coord(-c.x, -c.y)
      [] a = -90 -> Coord(-c.y, c.x)

\* rotate(angle) without centre; the trigonometric default branch is not
\* modelled (angles are multiples of 90)
Rotate(c, angle) ==
    LET a == NormalizeAngle(angle) IN
    CASE a = 0 -> c
      [] a = 90 -> Coord(-c.y, c.x)
      [] a = 180 -> Coord(-c.x, -c.y)
      [] a = -90 -> Coord(c.y, -c.x)

MirrorX(c) == Coord(c.x, -c.y)

MirrorY(c) == Coord(-c.x, c.y)

\* a faulty clone that hands out the object itself
CloneItself(place) == place

\* clone(): return new Coordinate(this.x, this.y).  `place` is the place the
\* cloned Coordinate has among the pins of its stencil; the clone is a new
\* object that has no place in a stencil (0)
Clone(place) == 0

\* the pins of a stencil after an operation in place (scale, rotate, mirrorX,
\* mirrorY, add, subtract) has left the value v in the object at `place`
WriteThrough(stencilPins, place, v) ==
    IF place = 0 THEN stencilPins ELSE [stencilPins EXCEPT ![place].coord = v]

\* orthogonalProjection(lineStart, lineEnd): lambda = (lv . hv) / |lv|^2 kept
\* as a reduced fraction, the result lineStart + lambda * lv
OrthogonalProjection(p, lineStart, lineEnd) ==
    LET lv == Subtract(lineEnd, lineStart)
        hv == Subtract(p, lineStart)
        num == lv.x * hv.x + lv.y * hv.y
        den == lv.x * lv.x + lv.y * lv.y
        g == Gcd(Abs(num), den)
        n == num \div g
        d == den \div g
    IN  Add(Coord((lv.x * n) \div d, (lv.y * n) \div d), lineStart)

---------------------------------------------------------------------------
(* The coordinate list and the net table *)

\* coords.find((existingCoord) => coord.equals(existingCoord)): the first
\* entry of the list with equal value, 0 if there is none (equals(undefined)
\* is false, so an undefined entry is passed over)
RECURSIVE FindFrom(_, _, _, _)
FindFrom(h, cs, v, i) ==
    IF i > Len(cs) THEN 0
    ELSE IF cs[i] # 0 /\ Equals(h[cs[i]], v) THEN cs[i]
    ELSE FindFrom(h, cs, v, i + 1)

PoolFind(h, cs, v) == FindFrom(h, cs, v, 1)

\* a faulty interning that pushes the candidate without looking for an equal
InternAlways(h, cs, v) ==
    [heap |-> Append(h, v), coords |-> Append(cs, Len(h) + 1), id |-> Len(h) + 1]

\* const oldCoord = coords.find(...); if (!oldCoord) coords.push(coord);
\* the candidate is a new object that enters the heap only when pushed
Intern(h, cs, v) ==
    With(PoolFind(h, cs, v), LAMBDA old :
        IF old # 0 THEN [heap |-> h, coords |-> cs, id |-> old]
        ELSE [heap |-> Append(h, v), coords |-> Append(cs, Len(h) + 1), id |-> Len(h) + 1])

\* this.#nets.get(netName)
RECURSIVE NetsGetFrom(_, _, _)
NetsGetFrom(m, name, i) ==
    IF i > Len(m) THEN 0
    ELSE IF m[i].key = name THEN m[i].net
    ELSE NetsGetFrom(m, name, i + 1)

\* a faulty lookup that never finds a net (every lookup then creates one)
NetsGetMiss(m, name) == 0

NetsGet(m, name) == NetsGetFrom(m, name, 1)

\* let net = this.#nets.get(netName);
\* if (!net) this.#nets.set(netName, (net = new Net(netName)));
NetGetOrCreate(m, objs, name) ==
    With(NetsGet(m, name), LAMBDA net :
        IF net # 0 THEN [nets |-> m, netObjs |-> objs, net |-> net]
        ELSE [nets |-> Append(m, [key |-> name, net |-> Len(objs) + 1]),
              netObjs |-> Append(objs, [netname |-> name, wires |-> <<>>]),
              net |-> Len(objs) + 1])

---------------------------------------------------------------------------
(* Errors *)

\* Converter.assertTagFound(variable, tagname) for a falsy variable:
\* throw new Error("XML-Tag not found: " + tagname)
AssertTagFound(tagname) == "XML-Tag not found: " \o tagname

\* the TypeError of the engine for a property read from undefined
ReadOfUndefined(property) ==
    "Cannot read properties of undefined (reading '" \o property \o "')"

---------------------------------------------------------------------------
(* Wire parsing *)

\* a wire record without a <net> tag
NoNetTag == "#no-net-tag"

\* (nameNode ? nameNode.getAttribute("name") : "") || ""
WireNetName(n) == IF n = NoNetTag THEN "" ELSE n

\* a faulty reduce that gives up the point list at the first token it
\* cannot parse
RECURSIVE ParsePointsStop(_, _, _, _)
ParsePointsStop(tokens, h, cs, acc) ==
    IF tokens = <<>> THEN [heap |-> h, coords |-> cs, ids |-> acc]
    ELSE With(Head(tokens), LAMBDA t :
         IF t.xfinite /\ t.yfinite
         THEN With(Intern(h, cs, Coord(ToDrawing(t.x), ToDrawing(t.y))), LAMBDA r :
              With(Append(acc, r.id), LAMBDA ids :
                   ParsePointsStop(Tail(tokens), r.heap, r.coords, ids)))
         ELSE [heap |-> h, coords |-> cs, ids |-> acc])

\* the reduce over the tokens of the point list: a token with finite x and y
\* is scaled and interned, any other token is skipped
RECURSIVE ParsePoints(_, _, _, _)
ParsePoints(tokens, h, cs, acc) ==
    IF tokens = <<>> THEN [heap |-> h, coords |-> cs, ids |-> acc]
    ELSE With(Head(tokens), LAMBDA t :
         IF t.xfinite /\ t.yfinite
         THEN With(Intern(h, cs, Coord(ToDrawing(t.x), ToDrawing(t.y))), LAMBDA r :
              With(Append(acc, r.id), LAMBDA ids :
                   ParsePoints(Tail(tokens), r.heap, r.coords, ids)))
         ELSE ParsePoints(Tail(tokens), h, cs, acc))

\* a faulty parse that still reads wires after the instances have begun
ParseWireLate(w) ==
    /\ phase \in {"wires", "instances"}
    /\ Len(wires) < MaxWires
    /\ \E n \in {NetGetOrCreate(nets, netObjs, WireNetName(w.net))} :
       \E p \in {ParsePoints(w.pts, heap, coords, <<>>)} :
           /\ nets' = n.nets
           /\ netObjs' = [n.netObjs EXCEPT ![n.net].wires = Append(@, Len(wires) + 1)]
           /\ heap' = p.heap
           /\ coords' = p.coords
           /\ wires' = Append(wires, [net |-> n.net, coords |-> p.ids, inNet |-> w.net,
                                      pts |-> w.pts])
    /\ UNCHANGED <<phase, view, error, catalog, components, doc, uuids, out, sink>>

\* one step of wireArray.map: net lookup, point parsing, new Wire(net,
\* wireCoords), net.wires.push(wire); inNet keeps the name attribute and pts
\* the point list the record carried
ParseWire(w) ==
    /\ phase = "wires"
    /\ Len(wires) < MaxWires
    /\ \E n \in {NetGetOrCreate(nets, netObjs, WireNetName(w.net))} :
       \E p \in {ParsePoints(w.pts, heap, coords, <<>>)} :
           /\ nets' = n.nets
           /\ netObjs' = [n.netObjs EXCEPT ![n.net].wires = Append(@, Len(wires) + 1)]
           /\ heap' = p.heap
           /\ coords' = p.coords
           /\ wires' = Append(wires, [net |-> n.net, coords |-> p.ids, inNet |-> w.net,
                                      pts |-> w.pts])
    /\ UNCHANGED <<phase, view, error, catalog, components, doc, uuids, out, sink>>

\* wireArray.map has returned; instanceArray.reduce begins
EndWires ==
    /\ phase = "wires"
    /\ phase' = "instances"
    /\ UNCHANGED <<view, error, catalog, heap, coords, nets, netObjs, wires,
                   components, doc, uuids, out, sink>>

---------------------------------------------------------------------------
(* Pin.findPosition *)

\* a Pin: coord is a heap id (0: undefined); `computed` keeps the value
\* this.coord had when the search for the real position began (empty:
\* undefined), `inNet` the net name the pin record of the document carried
NewPin(name, term, net, inNet) ==
    [coord |-> 0, name |-> name, instTermNumber |-> term, net |-> net,
     computed |-> <<>>, inNet |-> inNet]

\* pins?.find((stencilPin) => stencilPin.instTermNumber == this.instTermNumber)
\* as the index of the first such stencil pin, 0 if none; a stencil entry
\* that is no Pin has no instTermNumber (term = <<>>) and never matches
RECURSIVE HintIndexFrom(_, _, _)
HintIndexFrom(stencilPins, term, i) ==
    IF i > Len(stencilPins) THEN 0
    ELSE IF stencilPins[i].term = <<term>> THEN i
    ELSE HintIndexFrom(stencilPins, term, i + 1)

HintIndex(stencilPins, term) == HintIndexFrom(stencilPins, term, 1)

\* a faulty transformation that mirrors before it rotates
TransformMirrorFirst(local, placement, origin) ==
    With(ScaleBy(local, placement.xScale * placement.scaling,
                 placement.yScale * placement.scaling), LAMBDA s :
    With(IF placement.mirrorX THEN MirrorX(s) ELSE s, LAMBDA mx :
    With(IF placement.mirrorY THEN MirrorY(mx) ELSE mx, LAMBDA my :
    With(Rotate(my, placement.angle), LAMBDA r :
         Add(r, origin)))))

\* scale, rotate, mirrorX, mirrorY, then add(instanceCoord)
Transform(local, placement, origin) ==
    With(ScaleBy(local, placement.xScale * placement.scaling,
                 placement.yScale * placement.scaling), LAMBDA s :
    With(Rotate(s, placement.angle), LAMBDA r :
    With(IF placement.mirrorX THEN MirrorX(r) ELSE r, LAMBDA mx :
    With(IF placement.mirrorY THEN MirrorY(mx) ELSE mx, LAMBDA my :
         Add(my, origin)))))

\* wire.coords.reduce(...) from { distance: 1, coord: null }: a vertex
\* replaces the running best unless the best is strictly nearer
RECURSIVE ClosestOnWire(_, _, _, _, _)
ClosestOnWire(h, vertices, v, i, best) ==
    IF i > Len(vertices) THEN best
    ELSE With(Dist2(v, h[vertices[i]]), LAMBDA d :
         With(IF best.distance < d THEN best ELSE [distance |-> d, coord |-> vertices[i]],
              LAMBDA next : ClosestOnWire(h, vertices, v, i + 1, next)))

\* a faulty start of the reduce whose search distance is 0
NoVertexZero == [distance |-> 0, coord |-> 0]

NoVertex == [distance |-> MaxSearchDistance * MaxSearchDistance, coord |-> 0]

RECURSIVE PossibleCoordsAnyNet(_, _, _, _, _)
\* a faulty search that takes the nearest vertex of any wire, whatever its net
PossibleCoordsAnyNet(h, ws, net, v, i) ==
    IF i > Len(ws) THEN <<>>
    ELSE <<ClosestOnWire(h, ws[i].coords, v, 1, NoVertex)>>
         \o PossibleCoordsAnyNet(h, ws, net, v, i + 1)

\* wires.filter((wire) => wire.net == this.net).map(reduce)
RECURSIVE PossibleCoords(_, _, _, _, _)
PossibleCoords(h, ws, net, v, i) ==
    IF i > Len(ws) THEN <<>>
    ELSE IF ws[i].net = net
         THEN <<ClosestOnWire(h, ws[i].coords, v, 1, NoVertex)>>
              \o PossibleCoords(h, ws, net, v, i + 1)
         ELSE PossibleCoords(h, ws, net, v, i + 1)

\* possibleCoords.sort((a, b) => a.distance - b.distance)?.[0]?.coord: the
\* sort is stable, so the first entry of least distance comes first
SortedFirst(entries) ==
    IF entries = <<>> THEN 0
    ELSE LET i == CHOOSE k \in 1..Len(entries) :
                     /\ \A j \in 1..Len(entries) : entries[k].distance <= entries[j].distance
                     /\ \A j \in 1..(k - 1) : entries[j].distance > entries[k].distance
         IN  entries[i].coord

\* whether the reduce callback runs at all for this pin: some wire of its net
\* has a vertex
RECURSIVE AnyVertexOnNet(_, _, _)
AnyVertexOnNet(ws, net, i) ==
    IF i > Len(ws) THEN FALSE
    ELSE (ws[i].net = net /\ ws[i].coords # <<>>) \/ AnyVertexOnNet(ws, net, i + 1)

\* the pin's coordinate before the search: a clone of the hint (transformed
\* in place when relativeCoords), the component position, or undefined;
\* stencilPins are the stencil's pins as the transformation leaves them
HintCoord(pin, stencilPins, placement, instanceCoord, h, relativeCoords) ==
    With(HintIndex(stencilPins, pin.instTermNumber), LAMBDA k :
        IF k # 0
        THEN IF relativeCoords
             THEN With(Transform(stencilPins[k].coord, placement, h[instanceCoord]),
                       LAMBDA v :
                  [def |-> TRUE, id |-> 0, v |-> v,
                   stencilPins |-> WriteThrough(stencilPins, Clone(k), v)])
             ELSE [def |-> TRUE, id |-> 0, v |-> stencilPins[k].coord,
                   stencilPins |-> stencilPins]
        ELSE IF relativeCoords
             THEN [def |-> TRUE, id |-> instanceCoord, v |-> h[instanceCoord],
                   stencilPins |-> stencilPins]
             ELSE [def |-> FALSE, id |-> 0, v |-> Coord(0, 0),
                   stencilPins |-> stencilPins])

\* the search for the real position: the nearest vertex of a wire of the
\* pin's net, 0 if none is in range
SnapCoord(h, ws, net, v) ==
    IF net = 0 THEN 0
    ELSE With(PossibleCoords(h, ws, net, v, 1), LAMBDA entries : SortedFirst(entries))

\* findPosition(pins, placement, instanceCoord, wires, _nets, coords,
\* relativeCoords): the result is the pin with its coordinate, the heap, the
\* coordinate list and the stencil's pins; threw marks a TypeError on an
\* undefined this.coord
FindPosition(pin, stencilPins, placement, instanceCoord, ws, h, cs, relativeCoords) ==
    With(HintCoord(pin, stencilPins, placement, instanceCoord, h, relativeCoords),
         LAMBDA hint :
    IF ~hint.def
    THEN IF (pin.net # 0 /\ AnyVertexOnNet(ws, pin.net, 1)) \/ cs # <<>>
         THEN [threw |-> TRUE, heap |-> h, coords |-> cs, pin |-> pin,
               stencilPins |-> hint.stencilPins]
         ELSE [threw |-> FALSE, heap |-> h, coords |-> Append(cs, 0), pin |-> pin,
               stencilPins |-> hint.stencilPins]
    ELSE With(SnapCoord(h, ws, pin.net, hint.v), LAMBDA snapped :
         IF snapped # 0
         THEN [threw |-> FALSE, heap |-> h, coords |-> cs,
               pin |-> [pin EXCEPT !.computed = <<hint.v>>, !.coord = snapped],
               stencilPins |-> hint.stencilPins]
         ELSE With(PoolFind(h, cs, hint.v), LAMBDA existing :
              IF existing # 0
              THEN [threw |-> FALSE, heap |-> h, coords |-> cs,
                    pin |-> [pin EXCEPT !.computed = <<hint.v>>, !.coord = existing],
                    stencilPins |-> hint.stencilPins]
              ELSE IF hint.id # 0
              THEN [threw |-> FALSE, heap |-> h, coords |-> Append(cs, hint.id),
                    pin |-> [pin EXCEPT !.computed = <<hint.v>>, !.coord = hint.id],
                    stencilPins |-> hint.stencilPins]
              ELSE [threw |-> FALSE, heap |-> Append(h, hint.v),
                    coords |-> Append(cs, Len(h) + 1),
                    pin |-> [pin EXCEPT !.computed = <<hint.v>>,
                                        !.coord = Len(h) + 1],
                    stencilPins |-> hint.stencilPins])))

---------------------------------------------------------------------------
(* The stencil catalog (componentMaps) *)

\* new Pin(coord, name, instTermNumber, net) of a stencil; a null name is ""
StencilPin(coord, name, term) == [coord |-> coord, name |-> name, term |-> <<term>>]

TWO_POLE_COMPONENT_LENGTH == 1 * UNIT

ZERO_COORD == Coord(0, 0)

ZERO_PIN == StencilPin(ZERO_COORD, "", 1)

TRANSISTOR_TOP_PIN == StencilPin(Coord(UNIT \div 2, UNIT \div 2), "", 1)

TRANSISTOR_TAP_PIN == StencilPin(ZERO_COORD, "", 2)

TRANSISTOR_BOTTOM_PIN == StencilPin(Coord(UNIT \div 2, -(UNIT \div 2)), "", 3)

TWO_POLE_SECOND_PIN == StencilPin(Coord(TWO_POLE_COMPONENT_LENGTH, 0), "", 2)

TWO_POLE_COMPONENT_PINS == <<ZERO_PIN, TWO_POLE_SECOND_PIN>>

TWO_POLE_COMPONENT_PINS_MIRRORED == <<TWO_POLE_SECOND_PIN, ZERO_PIN>>

\* new PotentialComponent(type, ZERO_COORD): the `pin` of the stencil is a
\* Coordinate, which has no instTermNumber
PotentialStencil(type) ==
    [kind |-> "Node", tikzComponentName |-> type,
     pin |-> [coord |-> ZERO_COORD, name |-> "", term |-> <<>>]]

\* new PathComponent(name, null, pins)
PathStencil(name, pins) == [kind |-> "Path", tikzComponentName |-> name, pins |-> pins]

\* new Transistor(name, instanceName, pins, anchorNames, anchorNr, coord):
\* anchorNr 0 stands for null, pin numbers count from 1;
\* anchorCoord = anchorNr !== null ? null : coord || new Coordinate(0, 0)
Transistor(name, pins, anchorNr, coord) ==
    [tikzComponentName |-> name, pins |-> pins, anchorNr |-> anchorNr,
     anchorCoord |-> IF anchorNr # 0 THEN <<>> ELSE <<coord>>,
     angle |-> 0, mirrorX |-> FALSE, mirrorY |-> FALSE]

\* Transistor.fromStruct with pgfCircRlen 1.4: top, bottom and tap pin; a
\* Pin built without a number has instTermNumber 0
FromStruct(name, width, connHeight, height) ==
    LET pgfCircRlen == 14 * (UNIT \div 10)
        halfHeight == ((pgfCircRlen * height) \div UNIT) \div 2
        w == (pgfCircRlen * width) \div UNIT
    IN  Transistor(name,
                   <<StencilPin(Coord(0, halfHeight), "", 0),
                     StencilPin(Coord(0, -halfHeight), "", 0),
                     StencilPin(Coord(-w, (halfHeight * connHeight) \div UNIT), "", 0)>>,
                   0, ZERO_COORD)

\* the "op amp" template: x = 1.4 * 1.7 * .5, y = 1.4 * 1.4 * .5 * .5
OpAmpTemplate ==
    LET x == (((14 * 17 * UNIT) \div 100) \div 2)
        y == ((((14 * 14 * UNIT) \div 100) \div 2) \div 2)
    IN  Transistor("op amp",
                   <<StencilPin(Coord(-x, y), "-", 0),
                     StencilPin(Coord(-x, -y), "+", 0),
                     StencilPin(Coord(x, 0), "out", 0)>>,
                   0, ZERO_COORD)

\* the entries of TIKZ_COMPONENTS the model uses
TIKZ_COMPONENTS ==
    ("ground" :> PotentialStencil("ground"))
    @@ ("R" :> PathStencil("R", TWO_POLE_COMPONENT_PINS))
    @@ ("cC" :> PathStencil("cC", TWO_POLE_COMPONENT_PINS_MIRRORED))
    @@ ("npn" :> FromStruct("npn", 6 * (UNIT \div 10), 0, 11 * (UNIT \div 10)))
    @@ ("op amp" :> OpAmpTemplate)

\* new ABLTransistorMapper(tikzTransistor, pins, anchorNr); the anchor is
\* counted from 1 here
ABLTransistorMapper(tikzTransistor, pins, anchorNr) ==
    [kind |-> "Oriented", tikzTransistor |-> tikzTransistor, pins |-> pins,
     anchorNr |-> anchorNr + 1]

ADS_TIKZ_MAPPERS ==
    [BJT |-> ABLTransistorMapper(TIKZ_COMPONENTS["npn"],
                 <<TRANSISTOR_TOP_PIN, TRANSISTOR_BOTTOM_PIN, TRANSISTOR_TAP_PIN>>, 2)]

\* the entries of ADS_COMPONENTS_MAP the model uses
ADS_COMPONENTS_MAP ==
    ("GROUND" :> TIKZ_COMPONENTS["ground"])
    @@ ("C" :> TIKZ_COMPONENTS["cC"])
    @@ ("R" :> TIKZ_COMPONENTS["R"])
    @@ ("ads_rflib:R_Pad1" :> TIKZ_COMPONENTS["R"])
    @@ ("BJT_NPN" :> ADS_TIKZ_MAPPERS.BJT)
    @@ ("OpAmp" :> ABLTransistorMapper(TIKZ_COMPONENTS["op amp"],
                       <<StencilPin(ZERO_COORD, "P__0", 1),
                         StencilPin(Coord(0, -(UNIT \div 2)), "P__2", 3),
                         StencilPin(Coord(UNIT, -(UNIT \div 4)), "P__1", 2)>>, 0))

NoStencil == [kind |-> "none"]

\* a faulty lookup that falls back to the resistor instead of missing
LookupOrResistor(libraryName, cellName) ==
    IF cellName \in DOMAIN catalog THEN catalog[cellName]
    ELSE catalog["R"]

\* a faulty lookup that tries the cell name before the library's own entry
LookupGeneric(libraryName, cellName) ==
    LET key == libraryName \o ":" \o cellName IN
    IF cellName \in DOMAIN catalog THEN catalog[cellName]
    ELSE IF key \in DOMAIN catalog THEN catalog[key]
    ELSE NoStencil

\* ADS_COMPONENTS_MAP.get(libraryName + ":" + cellName)
\*     || ADS_COMPONENTS_MAP.get(cellName)
Lookup(libraryName, cellName) ==
    LET key == libraryName \o ":" \o cellName IN
    IF key \in DOMAIN catalog THEN catalog[key]
    ELSE IF cellName \in DOMAIN catalog THEN catalog[cellName]
    ELSE NoStencil

\* the catalog after a call of useAsStencil left the stencil object as
\* `left`: every key that maps to the object sees it
CatalogLeft(stencil, left) ==
    [k \in DOMAIN catalog |-> IF catalog[k] = stencil THEN left ELSE catalog[k]]

---------------------------------------------------------------------------
(* Placement helpers shared by the three stencil kinds *)

\* new Coordinate(placement.x * placement.scaling, placement.y * placement.scaling)
InstanceCoord(placement) == Coord(ToDrawing(placement.x), ToDrawing(placement.y))

\* pin.name && ablPin.name ? pin.name == ablPin.name
\*                         : pin.instTermNumber === ablPin.instTermNumber
PinMatches(pin, ablPin) ==
    IF pin.name # "" /\ ablPin.name # "" THEN pin.name = ablPin.name
    ELSE <<pin.instTermNumber>> = ablPin.term

\* pins.find(...) as the index of the first matching live pin, 0 if none
RECURSIVE FindPinFrom(_, _, _)
FindPinFrom(pins, ablPin, i) ==
    IF i > Len(pins) THEN 0
    ELSE IF PinMatches(pins[i], ablPin) THEN i
    ELSE FindPinFrom(pins, ablPin, i + 1)

\* a faulty reordering that leaves the live pins in the order of the record
ReorderAsRead(stencilPins, pins) ==
    [k \in 1..Len(stencilPins) |-> IF k <= Len(pins) THEN k ELSE 0]

\* stencilPins.map((ablPin) => pins.find(...)): the reordering, by index
Reorder(stencilPins, pins) ==
    [k \in 1..Len(stencilPins) |-> FindPinFrom(pins, stencilPins[k], 1)]

\* pins.forEach((pin) => pin.findPosition(...)), one pin after the other on
\* the heap and coordinate list the pins before it left
RECURSIVE FindPositions(_, _, _)
FindPositions(st, i, ctx) ==
    IF st.threw \/ i > Len(st.pins) THEN st
    ELSE With(FindPosition(st.pins[i], st.stencilPins, ctx.placement,
                           ctx.instanceCoord, ctx.wires, st.heap, st.coords,
                           ctx.relativeCoords), LAMBDA r :
         With([threw |-> r.threw, heap |-> r.heap, coords |-> r.coords,
               pins |-> [st.pins EXCEPT ![i] = r.pin],
               stencilPins |-> r.stencilPins], LAMBDA next :
              FindPositions(next, i + 1, ctx)))

\* a component of the result list; the fields a kind does not have are empty
NewComponent(kind, name, instanceName, pins, angle, mirrorX, mirrorY) ==
    [kind |-> kind, tikzComponentName |-> name, instanceName |-> instanceName,
     pins |-> pins, angle |-> angle, mirrorX |-> mirrorX, mirrorY |-> mirrorY,
     anchorNr |-> 0, anchorCoord |-> <<>>, abl |-> <<>>, tpl |-> <<>>]

NoComponent == NewComponent("none", "", "", <<>>, 0, FALSE, FALSE)

\* a TypeError leaves useAsStencil; stencil is the stencil as it is then
Threw(h, cs, stencil) ==
    [threw |-> TRUE, heap |-> h, coords |-> cs, component |-> NoComponent,
     stencil |-> stencil]

---------------------------------------------------------------------------
(* PotentialComponent.useAsStencil *)

PotentialUseAsStencil(stencil, instanceName, pins, placement, ws, h, cs) ==
    With(NormalizeAngle(placement.angle + 90), LAMBDA angle :
    With(Intern(h, cs, InstanceCoord(placement)), LAMBDA origin :
        \* pins[0].findPosition on an empty pin list
        IF pins = <<>> THEN Threw(origin.heap, origin.coords, stencil)
        ELSE With(FindPosition(pins[1], <<stencil.pin>>,
                               [placement EXCEPT !.angle = angle], origin.id,
                               ws, origin.heap, origin.coords, TRUE), LAMBDA r :
             With([stencil EXCEPT !.pin = r.stencilPins[1]], LAMBDA left :
             IF r.threw THEN Threw(r.heap, r.coords, left)
             ELSE [threw |-> FALSE, heap |-> r.heap, coords |-> r.coords,
                   component |-> NewComponent("Node", stencil.tikzComponentName, "",
                                              <<r.pin>>, angle,
                                              placement.mirrorX, placement.mirrorY),
                   stencil |-> left]))))

---------------------------------------------------------------------------
(* PathComponent.useAsStencil *)

PathUseAsStencil(stencil, instanceName, pins, placement, ws, h, cs) ==
    With(NormalizeAngle(placement.angle), LAMBDA angle :
    With(Intern(h, cs, InstanceCoord(placement)), LAMBDA origin :
    With(Reorder(stencil.pins, pins), LAMBDA order :
        \* forEach calls findPosition on undefined where the reordering
        \* found no live pin for a stencil terminal (the pins before it have
        \* been positioned by then, none of which writes to the stencil
        \* unless its clone is the stencil's object, see FindPositions)
        IF \E k \in 1..Len(order) : order[k] = 0
        THEN Threw(origin.heap, origin.coords, stencil)
        ELSE With([placement |-> [placement EXCEPT !.angle = angle],
                   instanceCoord |-> origin.id, wires |-> ws,
                   relativeCoords |-> TRUE], LAMBDA ctx :
             With([threw |-> FALSE, heap |-> origin.heap, coords |-> origin.coords,
                   pins |-> [k \in 1..Len(order) |-> pins[order[k]]],
                   stencilPins |-> stencil.pins], LAMBDA st :
             With(FindPositions(st, 1, ctx), LAMBDA r :
             With([stencil EXCEPT !.pins = r.stencilPins], LAMBDA left :
                  IF r.threw THEN Threw(r.heap, r.coords, left)
                  ELSE [threw |-> FALSE, heap |-> r.heap, coords |-> r.coords,
                        component |-> NewComponent("Path", stencil.tikzComponentName,
                                                   instanceName, r.pins, angle,
                                                   FALSE, FALSE),
                        stencil |-> left])))))))

---------------------------------------------------------------------------
(* Transistor and ABLTransistorMapper: the two triangles, as sequences of  *)
(* the coordinates of pins 0, 1, 2 (here 1, 2, 3); they are clones, no     *)
(* other object refers to them                                             *)

CoordsOf(stencilPins) == [i \in 1..Len(stencilPins) |-> stencilPins[i].coord]

\* get lineCrossingCoord():
\* pins[2].coord.orthogonalProjection(pins[0].coord, pins[1].coord)
LineCrossingCoord(tri) == OrthogonalProjection(tri[3], tri[1], tri[2])

\* rotate(angle): every pin but the anchor pin turns about the origin
\* (anchorNr 0, i.e. null, leaves no pin out)
RotatePins(tri, anchorNr, angle) ==
    [i \in 1..Len(tri) |-> IF i # anchorNr /\ angle # 0 THEN Rotate(tri[i], angle) ELSE tri[i]]

\* one coordinate mirrored about mirrorMid: subtract, flip, add
MirrorAbout(c, mid, mirrorX, mirrorY) ==
    LET d == Subtract(c, mid)
        fx == IF mirrorX THEN MirrorX(d) ELSE d
        fy == IF mirrorY THEN MirrorY(fx) ELSE fx
    IN  Add(fy, mid)

\* the loop of mirror(): `i !== this.anchorCoord` holds for every i, so the
\* anchor pin is processed too; mirrorMid is that pin's own Coordinate, which
\* subtract(mirrorMid) zeroes, and the pins after it are mirrored about the
\* zeroed mirrorMid.  anchorNr 0: mirrorMid is a separate object (mid)
RECURSIVE MirrorPinsFrom(_, _, _, _, _, _)
MirrorPinsFrom(tri, i, anchorNr, mid, mirrorX, mirrorY) ==
    IF i > Len(tri) THEN tri
    ELSE With(IF i = anchorNr THEN Coord(0, 0)
              ELSE MirrorAbout(tri[i], IF anchorNr # 0 THEN tri[anchorNr] ELSE mid,
                               mirrorX, mirrorY), LAMBDA c :
         With([tri EXCEPT ![i] = c], LAMBDA next :
              MirrorPinsFrom(next, i + 1, anchorNr, mid, mirrorX, mirrorY)))

\* mirror(mirrorX, mirrorY)
MirrorPins(tri, anchorNr, mid, mirrorX, mirrorY) ==
    IF ~(mirrorX \/ mirrorY) THEN tri
    ELSE MirrorPinsFrom(tri, 1, anchorNr, mid, mirrorX, mirrorY)

\* translate(vector)
TranslatePins(tri, vector) == [i \in 1..Len(tri) |-> Add(tri[i], vector)]

\* ablTransistorClone: this.clone(), each pin scaled, then rotate, mirror,
\* translate(instanceCoord)
AblTriangle(mapper, placement) ==
    With([i \in 1..Len(mapper.pins) |->
              ScaleBy(mapper.pins[i].coord, placement.xScale * placement.scaling,
                      placement.yScale * placement.scaling)], LAMBDA scaled :
    With(RotatePins(scaled, mapper.anchorNr, NormalizeAngle(placement.angle)),
         LAMBDA rotated :
    With(MirrorPins(rotated, mapper.anchorNr, Coord(0, 0),
                    placement.mirrorX, placement.mirrorY), LAMBDA mirrored :
         TranslatePins(mirrored, InstanceCoord(placement)))))

\* a faulty alignment that forgets the template's own line-crossing point
AlignToAnatomical(ablTri, tplTri) == LineCrossingCoord(ablTri)

\* the vector the template is moved by:
\* ablTransistorClone.lineCrossingCoord.clone().subtract(transistor.lineCrossingCoord)
AlignVector(ablTri, tplTri) == Subtract(LineCrossingCoord(ablTri), LineCrossingCoord(tplTri))

\* transistor = this.tikzTransistor.deepClone(); rotate, mirror about
\* this.coord, translate by the alignment vector (pins and anchorCoord).
\* deepClone hands its arguments over one place late: the clone's angle is
\* nodeName || 0 = 0, its mirrorX the stencil's angle, its mirrorY the
\* stencil's mirrorX
TemplateTriangle(mapper, placement, ablTri) ==
    LET t == mapper.tikzTransistor
        angle == NormalizeAngle(placement.angle)
        mid == IF t.anchorCoord # <<>> THEN t.anchorCoord[1] ELSE Coord(0, 0)
        mirrors == placement.mirrorX \/ placement.mirrorY
    IN  With(RotatePins(CoordsOf(t.pins), t.anchorNr, angle), LAMBDA rotated :
        With(MirrorPins(rotated, t.anchorNr, mid, placement.mirrorX, placement.mirrorY),
             LAMBDA mirrored :
        With(AlignVector(ablTri, mirrored), LAMBDA vector :
             [pins |-> TranslatePins(mirrored, vector),
              anchorCoord |-> IF t.anchorCoord # <<>> THEN <<Add(mid, vector)>> ELSE <<>>,
              angle |-> NormalizeAngle(0 + angle),
              mirrorX |-> IF mirrors THEN (t.angle # 0) # placement.mirrorX
                          ELSE (t.angle # 0),
              mirrorY |-> IF mirrors THEN t.mirrorX # placement.mirrorY
                          ELSE t.mirrorX])))

\* for (i < transistor.pins.length && i < pins.length):
\*     pins[i].coord.x = transistor.pins[i].coord.x; (and y)
\* written into the Coordinate object the live pin holds, whoever else holds
\* it; pin 0 (no live pin for the anatomical pin) or coord 0 is a TypeError
RECURSIVE OverwriteFrom(_, _, _, _, _)
OverwriteFrom(h, pins, order, tplTri, i) ==
    IF i > Len(tplTri) \/ i > Len(order) THEN [threw |-> FALSE, heap |-> h]
    ELSE IF order[i] = 0 THEN [threw |-> TRUE, heap |-> h]
    ELSE IF pins[order[i]].coord = 0 THEN [threw |-> TRUE, heap |-> h]
    ELSE With([h EXCEPT ![pins[order[i]].coord] = tplTri[i]], LAMBDA next :
              OverwriteFrom(next, pins, order, tplTri, i + 1))

\* the pins of a stencil after each pin was cloned by pin.deepClone()
\* (clone.coord = clone.coord.clone()) and the clones were brought to the
\* triangle tri in place
PinsLeft(stencilPins, tri) ==
    [i \in 1..Len(stencilPins) |-> WriteThrough(stencilPins, Clone(i), tri[i])[i]]

\* the anchorCoord of a Transistor after deepClone() cloned it
\* (this.coord ? this.coord.clone() : null) and translate() moved the clone
AnchorLeft(t, moved) ==
    IF t.anchorCoord = <<>> \/ Clone(Len(t.pins) + 1) = 0 THEN t.anchorCoord ELSE moved

\* the mapper after this.clone() and this.tikzTransistor.deepClone() were
\* transformed into the two triangles
MapperLeft(mapper, ablTri, tpl) ==
    [mapper EXCEPT !.pins = PinsLeft(mapper.pins, ablTri),
                   !.tikzTransistor =
                       [@ EXCEPT !.pins = PinsLeft(mapper.tikzTransistor.pins, tpl.pins),
                                 !.anchorCoord = AnchorLeft(mapper.tikzTransistor,
                                                            tpl.anchorCoord)]]

---------------------------------------------------------------------------
(* ABLTransistorMapper.useAsStencil *)

OrientedUseAsStencil(mapper, instanceName, pins, placement, ws, h, cs) ==
    With(AblTriangle(mapper, placement), LAMBDA ablTri :
    With(TemplateTriangle(mapper, placement, ablTri), LAMBDA tpl :
    With(MapperLeft(mapper, ablTri, tpl), LAMBDA left :
    \* if (transistor.anchorNr != null && transistor.anchorCoord): the
    \* anchor is interned; a Transistor never has both
    With(IF mapper.tikzTransistor.anchorNr # 0 /\ tpl.anchorCoord # <<>>
         THEN Intern(h, cs, tpl.anchorCoord[1])
         ELSE [heap |-> h, coords |-> cs, id |-> 0], LAMBDA anchor :
    With([i \in 1..Len(mapper.pins) |-> [mapper.pins[i] EXCEPT !.coord = ablTri[i]]],
         LAMBDA ablPins :
    With([placement |-> placement, instanceCoord |-> 0,
          wires |-> ws, relativeCoords |-> FALSE], LAMBDA ctx :
    With(FindPositions([threw |-> FALSE, heap |-> anchor.heap, coords |-> anchor.coords,
                        pins |-> pins, stencilPins |-> ablPins], 1, ctx), LAMBDA r :
        IF r.threw THEN Threw(r.heap, r.coords, left)
        ELSE With(Reorder(ablPins, r.pins), LAMBDA order :
             With(OverwriteFrom(r.heap, r.pins, order, tpl.pins, 1), LAMBDA o :
                  IF o.threw THEN Threw(o.heap, r.coords, left)
                  ELSE [threw |-> FALSE, heap |-> o.heap, coords |-> r.coords,
                        stencil |-> left,
                        component |->
                            [NewComponent("Oriented",
                                          mapper.tikzTransistor.tikzComponentName,
                                          instanceName,
                                          [k \in 1..Len(order) |-> r.pins[order[k]]],
                                          tpl.angle, tpl.mirrorX, tpl.mirrorY)
                             EXCEPT !.anchorNr = mapper.tikzTransistor.anchorNr,
                                    !.anchorCoord = tpl.anchorCoord, !.abl = ablTri,
                                    !.tpl = tpl.pins]])))))))))

\* componentStencil.useAsStencil(...), by the class of the stencil
UseAsStencil(stencil, instanceName, pins, placement, ws, h, cs) ==
    With(placement, LAMBDA pl :
    CASE stencil.kind = "Node" ->
             PotentialUseAsStencil(stencil, instanceName, pins, pl, ws, h, cs)
      [] stencil.kind = "Path" ->
             PathUseAsStencil(stencil, instanceName, pins, pl, ws, h, cs)
      [] stencil.kind = "Oriented" ->
             OrientedUseAsStencil(stencil, instanceName, pins, pl, ws, h, cs))

---------------------------------------------------------------------------
(* Instance parsing *)

\* an instance record without a <PlacementTransform> tag
NoPlacementTag ==
    [present |-> FALSE, x |-> 0, y |-> 0, angle |-> 0, xScale |-> 0, yScale |-> 0,
     mirrorX |-> FALSE, mirrorY |-> FALSE]

\* the placement struct: parseFloat(..) || 0, parseFloat(..) || 1,
\* getAttribute(..) == "true"; without the tag the defaults, whose mirrorX
\* and mirrorY are 1 (true where they are tested)
Placement(p) ==
    IF p.present
    THEN [x |-> p.x, y |-> p.y, angle |-> p.angle,
          xScale |-> IF p.xScale = 0 THEN 1 ELSE p.xScale,
          yScale |-> IF p.yScale = 0 THEN 1 ELSE p.yScale,
          mirrorX |-> p.mirrorX, mirrorY |-> p.mirrorY, scaling |-> SCALE]
    ELSE [x |-> 0, y |-> 0, angle |-> 0, xScale |-> 1, yScale |-> 1,
          mirrorX |-> TRUE, mirrorY |-> TRUE, scaling |-> SCALE]

\* uuid(): a name no net of the document has
Uuid(n) == "uuid-" \o ToString(n)

\* instPinArray.map: the net of each pin is looked up or created, a pin
\* without net name gets a net of a fresh uuid name
RECURSIVE MakePins(_, _, _)
MakePins(instPins, i, st) ==
    IF i > Len(instPins) THEN st
    ELSE LET ip == instPins[i]
             named == IF ip.net = NoNetTag THEN "" ELSE ip.net
             netName == IF named = "" THEN Uuid(st.uuids + 1) ELSE named
         IN  With(NetGetOrCreate(st.nets, st.netObjs, netName), LAMBDA n :
             With([nets |-> n.nets, netObjs |-> n.netObjs,
                   uuids |-> IF named = "" THEN st.uuids + 1 ELSE st.uuids,
                   pins |-> Append(st.pins,
                                   NewPin(ip.pinName, ip.instTermNumber, n.net, named))],
                  LAMBDA next : MakePins(instPins, i + 1, next)))

\* one step of instanceArray.reduce.  A TypeError leaves #parse and the
\* constructor: no Schematic comes into being, the model keeps the state the
\* step began in and records only that it threw
PlaceInstance(inst, limit) ==
    /\ phase = "instances"
    /\ Len(doc) < limit
    /\ \E componentStencil \in {Lookup(inst.libraryName, inst.cellName)} :
       IF componentStencil.kind = "none"
       THEN /\ doc' = Append(doc, [inst |-> inst, outcome |-> "skipped", component |-> 0])
            /\ UNCHANGED <<phase, view, error, catalog, heap, coords, nets, netObjs,
                           wires, components, uuids, out, sink>>
       ELSE \E mp \in {MakePins(inst.pins, 1, [nets |-> nets, netObjs |-> netObjs,
                                               uuids |-> uuids, pins |-> <<>>])} :
            \E r \in {UseAsStencil(componentStencil, inst.instanceName, mp.pins,
                                   Placement(inst.placement), wires, heap, coords)} :
                IF r.threw
                THEN /\ phase' = "threw"
                     /\ doc' = Append(doc, [inst |-> inst, outcome |-> "threw", component |-> 0])
                     /\ catalog' = CatalogLeft(componentStencil, r.stencil)
                     /\ UNCHANGED <<view, error, heap, coords, nets, netObjs, wires,
                                    components, uuids, out, sink>>
                ELSE /\ heap' = r.heap
                     /\ coords' = r.coords
                     /\ nets' = mp.nets
                     /\ netObjs' = mp.netObjs
                     /\ uuids' = mp.uuids
                     /\ components' = Append(components, r.component)
                     /\ doc' = Append(doc, [inst |-> inst, outcome |-> "placed",
                                            component |-> Len(components) + 1])
                     /\ catalog' = CatalogLeft(componentStencil, r.stencil)
                     /\ UNCHANGED <<phase, view, error, wires, out, sink>>

---------------------------------------------------------------------------
(* The documents explored *)

Inch == InRes

\* a token "x,y" of a point list whose numbers parse
Pt(x, y) == [x |-> x, y |-> y, xfinite |-> TRUE, yfinite |-> TRUE]

\* a token whose y does not parse ("1,")
BadPt(x) == [x |-> x, y |-> 0, xfinite |-> TRUE, yfinite |-> FALSE]

WireVCC == [net |-> "VCC", pts |-> <<Pt(0, 0), Pt(Inch, 0)>>]

WireEmptyName == [net |-> "", pts |-> <<Pt(Inch, 0), BadPt(Inch), Pt(Inch, Inch)>>]

\* a token whose x does not parse (",1", or the empty token between two blanks)
BadX(y) == [x |-> 0, y |-> y, xfinite |-> FALSE, yfinite |-> TRUE]

WireNoTag == [net |-> NoNetTag, pts |-> <<BadX(Inch), Pt(0, 0), Pt(0, Inch)>>]

WireInputs == {WireVCC, WireEmptyName, WireNoTag}

At(x, y, angle, xScale, yScale, mirrorX, mirrorY) ==
    [present |-> TRUE, x |-> x, y |-> y, angle |-> angle, xScale |-> xScale,
     yScale |-> yScale, mirrorX |-> mirrorX, mirrorY |-> mirrorY]

InstPin(instTermNumber, pinName, net) ==
    [instTermNumber |-> instTermNumber, pinName |-> pinName, net |-> net]

Instance(libraryName, cellName, instanceName, placement, pins) ==
    [libraryName |-> libraryName, cellName |-> cellName, instanceName |-> instanceName,
     placement |-> placement, pins |-> pins]

\* the resistor of scenario 1: at (0.5, 0), terminal 1 on VCC
R1 == Instance("ads_rflib", "R", "R1", At(Inch \div 2, 0, 0, 1, 1, FALSE, FALSE),
               <<InstPin(1, "", "VCC"), InstPin(2, "", "N1")>>)

R2 == Instance("ads_rflib", "R", "R2", At(Inch \div 4, 0, 0, 1, 1, FALSE, FALSE),
               <<InstPin(1, "", "VCC"), InstPin(2, "", "")>>)

R3 == Instance("ads_rflib", "R_Pad1", "R3", At(0, -Inch, 90, 1, 1, FALSE, FALSE),
               <<InstPin(2, "", "VCC"), InstPin(1, "", NoNetTag)>>)

\* a resistor whose record has terminal 1 only
R4 == Instance("ads_rflib", "R", "R4", At(0, 0, 0, 1, 1, FALSE, FALSE),
               <<InstPin(1, "", "VCC")>>)

\* a resistor without placement tag
R5 == Instance("ads_rflib", "R", "R5", NoPlacementTag,
               <<InstPin(1, "", "VCC"), InstPin(2, "", "N1")>>)

Cap1 == Instance("ads_rflib", "C", "C1", At(Inch, 0, -180, 1, 1, FALSE, FALSE),
               <<InstPin(1, "", "N1"), InstPin(2, "", "VCC")>>)

\* the ground of scenario 3: at (2, -1), far from every wire
G1 == Instance("ads_rflib", "GROUND", "G1", At(2 * Inch, -Inch, 0, 1, 1, FALSE, FALSE),
               <<InstPin(1, "", "VCC")>>)

\* a ground turned, stretched and mirrored, on a net without wire
G2 == Instance("ads_rflib", "GROUND", "G2", At(Inch, 0, 90, 2, 1, TRUE, FALSE),
               <<InstPin(1, "", "GND")>>)

\* a ground whose record has no pin
G3 == Instance("ads_rflib", "GROUND", "G3", At(Inch, 0, 0, 1, 1, FALSE, FALSE), <<>>)

\* a cell the catalog does not know
X1 == Instance("mylib", "XYZ", "X1", At(0, 0, 0, 1, 1, FALSE, FALSE),
               <<InstPin(1, "", "VCC"), InstPin(2, "", "NEW")>>)

BjtPins == <<InstPin(1, "", "N1"), InstPin(2, "", "VCC"), InstPin(3, "", "")>>

OpAmpPins == <<InstPin(1, "P__0", "VCC"), InstPin(2, "P__1", "N1"), InstPin(3, "P__2", "")>>

Q1 == Instance("ads_rflib", "BJT_NPN", "Q1", At(0, 0, 0, 1, 1, FALSE, FALSE), BjtPins)

\* a transistor with a fourth pin whose terminal number no anatomical pin has
Q2 == Instance("ads_rflib", "BJT_NPN", "Q2", At(0, 0, 0, 1, 1, FALSE, FALSE),
               <<InstPin(7, "", "GND")>> \o BjtPins)

\* a transistor facing Q1: mirrored, its top and bottom pin where Q1 has them
Q3 == Instance("ads_rflib", "BJT_NPN", "Q3", At(Inch, 0, 0, 1, 1, FALSE, TRUE), BjtPins)

U1 == Instance("ads_rflib", "OpAmp", "U1", At(Inch, 0, 0, 1, 1, FALSE, FALSE), OpAmpPins)

\* a capacitor of another library
Cap2 == Instance("mylib", "C", "C2", At(0, Inch, 0, 1, 1, FALSE, FALSE),
               <<InstPin(1, "", "VCC"), InstPin(2, "", "N1")>>)

\* the instances placed from a catalog with a library-specific entry
CatalogInputs == {Cap1, Cap2, R1, X1}

InstanceInputs == {R1, R2, R3, R4, R5, Cap1, G1, G2, G3, X1, Q1, Q2, Q3, U1}

Angles == {0, 90, 180, -90}

\* transistors and op amps in every orientation
OrientedInputs ==
    {Instance("ads_rflib", "BJT_NPN", "Q", At(0, 0, a, 1, 1, mx, my), BjtPins) :
         a \in Angles, mx \in BOOLEAN, my \in BOOLEAN}
    \cup {Instance("ads_rflib", "OpAmp", "U", At(Inch, 0, a, 1, 1, mx, my), OpAmpPins) :
              a \in Angles, mx \in BOOLEAN, my \in BOOLEAN}

---------------------------------------------------------------------------
(* The state machine *)

\* a writable stream nothing has been written to and nobody listens to
NewSink == [full |-> FALSE, error |-> 0, drain |-> 0]

\* a schematicview node: whether it has a <shapes> and an <instances> child
ViewInputs == [shapes : BOOLEAN, instances : BOOLEAN]

\* the head of #parse: the two sections are looked up and asserted.
\* getNamedTag gives undefined for a missing section; the second assertion
\* tests `shapes` once more, so a missing <instances> gets as far as
\* getNamedTags(instances, "instance"), which reads instances.childNodes
BeginParse(v) ==
    /\ phase = "new"
    /\ view' = <<v>>
    /\ IF ~v.shapes
       THEN phase' = "error" /\ error' = AssertTagFound("shapes")
       ELSE IF ~v.instances
       THEN phase' = "error" /\ error' = ReadOfUndefined("childNodes")
       ELSE phase' = "wires" /\ error' = error
    /\ UNCHANGED <<catalog, heap, coords, nets, netObjs, wires, components, doc,
                   uuids, out, sink>>

\* instanceArray.reduce has returned, #parse and fromXML return the schematic
EndInstances ==
    /\ phase = "instances"
    /\ phase' = "parsed"
    /\ UNCHANGED <<view, error, catalog, heap, coords, nets, netObjs, wires,
                   components, doc, uuids, out, sink>>

\* fromXML for the next view: let schematic = new Schematic(); the catalog
\* is the one the views before have left
NewView ==
    /\ phase \in {"parsed", "error", "threw", "printed", "printThrew", "rejected"}
    /\ phase' = "new"
    /\ view' = <<>>
    /\ error' = ""
    /\ heap' = <<>>
    /\ coords' = <<>>
    /\ nets' = <<>>
    /\ netObjs' = <<>>
    /\ wires' = <<>>
    /\ components' = <<>>
    /\ doc' = <<>>
    /\ uuids' = 0
    /\ out' = <<>>
    /\ sink' = NewSink
    /\ UNCHANGED catalog

\* the catalog modules are loaded and new Schematic() has run: no coordinate,
\* net, wire or component yet
Init ==
    /\ phase = "new"
    /\ view = <<>>
    /\ error = ""
    /\ catalog = ADS_COMPONENTS_MAP
    /\ out = <<>>
    /\ sink = NewSink
    /\ heap = <<>>
    /\ coords = <<>>
    /\ nets = <<>>
    /\ netObjs = <<>>
    /\ wires = <<>>
    /\ components = <<>>
    /\ doc = <<>>
    /\ uuids = 0

Next ==
    \/ \E v \in ViewInputs : BeginParse(v)
    \/ \E w \in WireInputs : ParseWire(w)
    \/ EndWires
    \/ \E inst \in InstanceInputs : PlaceInstance(inst, MaxInstances)
    \/ EndInstances
    \/ NewView

Spec == Init /\ [][Next]_vars

NextOriented ==
    \/ \E v \in ViewInputs : BeginParse(v)
    \/ \E w \in WireInputs : ParseWire(w)
    \/ EndWires
    \/ \E inst \in OrientedInputs : PlaceInstance(inst, MaxOriented)
    \/ EndInstances
    \/ NewView

SpecOriented == Init /\ [][NextOriented]_vars

\* Coordinate.rotate on its own: heap[1] is a Coordinate, heap[2] a clone of
\* it that is rotated in place, doc the angles it was rotated by so far
RotateCoords == {Coord(x * UNIT, y * (UNIT \div 2)) : x \in -1..2, y \in -2..1}

\* the angles with an exact branch, some of them a whole turn off
RotateAngles == {a + 360 * k : a \in Angles, k \in -1..1}

InitRotate ==
    /\ phase = "rotate"
    /\ view = <<>>
    /\ error = ""
    /\ catalog = ADS_COMPONENTS_MAP
    /\ out = <<>>
    /\ sink = NewSink
    /\ \E c \in RotateCoords : heap = <<c, c>>
    /\ coords = <<>>
    /\ nets = <<>>
    /\ netObjs = <<>>
    /\ wires = <<>>
    /\ components = <<>>
    /\ doc = <<>>
    /\ uuids = 0

\* coord.rotate(angle)
RotateStep(angle) ==
    /\ phase = "rotate"
    /\ Len(doc) < MaxRotations
    /\ heap' = [heap EXCEPT ![2] = Rotate(@, angle)]
    /\ doc' = Append(doc, angle)
    /\ UNCHANGED <<phase, view, error, catalog, coords, nets, netObjs, wires,
                   components, uuids, out, sink>>

NextRotate == \E angle \in RotateAngles : RotateStep(angle)

SpecRotate == InitRotate /\ [][NextRotate]_vars

\* catalogs for the lookup: the catalog as shipped, in which no cell has both
\* a "library:cell" key and a bare key, and the same catalog with a key
\* "ads_rflib:C" for the resistor stencil besides the generic key "C"
Catalogs ==
    {ADS_COMPONENTS_MAP,
     ("ads_rflib:C" :> TIKZ_COMPONENTS["R"]) @@ ADS_COMPONENTS_MAP}

InitCatalog ==
    /\ phase = "new"
    /\ view = <<>>
    /\ error = ""
    /\ catalog \in Catalogs
    /\ out = <<>>
    /\ sink = NewSink
    /\ heap = <<>>
    /\ coords = <<>>
    /\ nets = <<>>
    /\ netObjs = <<>>
    /\ wires = <<>>
    /\ components = <<>>
    /\ doc = <<>>
    /\ uuids = 0

NextCatalog ==
    \/ \E v \in ViewInputs : BeginParse(v)
    \/ \E w \in WireInputs : ParseWire(w)
    \/ EndWires
    \/ \E inst \in CatalogInputs : PlaceInstance(inst, MaxInstances)
    \/ EndInstances
    \/ NewView

SpecCatalog == InitCatalog /\ [][NextCatalog]_vars

---------------------------------------------------------------------------
(* Schematic.printToStream: every println is one step, and so is every     *)
(* "drain" and "error" event of the sink                                   *)

\* the rotation and mirroring options of a \node
NoOpts == [mirrorX |-> FALSE, mirrorY |-> FALSE, angle |-> 0]

\* one println: `head` opens the statement, `at` are the serialized
\* coordinates, `name` the TikZ component, `label` the label or node text,
\* `mark` the pin mark a path component draws on a line of its own before
\* its statement ("": none)
Statement(head, at, name, label, mark, opts) ==
    [head |-> head, at |-> at, name |-> name, label |-> label, mark |-> mark,
     opts |-> opts]

TextLine(text) == Statement(text, <<>>, "", <<>>, "", NoOpts)

\* Coordinate.serializeName: "(" + x + ", " + y + ")", as the two numbers
SerializeName(c) == <<c.x, c.y>>

\* instanceName.match(/^([a-zA-Z]+)[_-]?([0-9]+)$/) on the instance names of
\* the documents explored: the groups of the names that match
Labels ==
    [n \in {"R1", "R2", "R3", "R4", "R5", "C1", "C2", "G1", "G2", "G3", "X1",
            "Q1", "Q2", "Q3", "U1"} |->
        [name |-> IF n \in {"R1", "R2", "R3", "R4", "R5"} THEN "R"
                  ELSE IF n \in {"C1", "C2"} THEN "C"
                  ELSE IF n \in {"G1", "G2", "G3"} THEN "G"
                  ELSE IF n \in {"Q1", "Q2", "Q3"} THEN "Q"
                  ELSE IF n = "X1" THEN "X" ELSE "U",
         index |-> IF n \in {"R1", "C1", "G1", "X1", "Q1", "U1"} THEN 1
                   ELSE IF n \in {"R2", "C2", "G2", "Q2"} THEN 2
                   ELSE IF n \in {"R3", "G3", "Q3"} THEN 3
                   ELSE IF n = "R4" THEN 4 ELSE 5]]

\* <<groups>>, or <<>> for null
Match(instanceName) ==
    IF instanceName \in DOMAIN Labels THEN <<Labels[instanceName]>> ELSE <<>>

\* let [_fullMatch, name, index] = this.instanceName.match(...): destructuring
\* null throws, so the branch `label = this.instanceName` is never taken
LabelOf(instanceName) ==
    IF instanceName = "" THEN [threw |-> FALSE, label |-> <<>>]
    ELSE IF Match(instanceName) = <<>> THEN [threw |-> TRUE, label |-> <<>>]
    ELSE [threw |-> FALSE, label |-> Match(instanceName)]

\* serialize() gave a string, or threw
Serialized(text) == [threw |-> FALSE, text |-> text]

SerializeThrew == [threw |-> TRUE, text |-> TextLine("")]

\* Wire.serialize
WireSerialize(w, h) ==
    Serialized(Statement("\\draw[Rays-Rays,red]",
                         [k \in 1..Len(w.coords) |-> SerializeName(h[w.coords[k]])],
                         "", <<>>, "", NoOpts))

\* the pin mark of PathComponent.serialize
Pinmark(angle, first, second) ==
    IF angle \in {0, 180}
    THEN IF first.x < second.x THEN "++ (3pt,0)" ELSE "++ (-3pt,0)"
    ELSE IF angle \in {90, -90}
    THEN IF first.y < second.y THEN "++ (0,3pt)" ELSE "++ (0,-3pt)"
    ELSE ""

\* PathComponent.serialize
PathSerialize(c, h) ==
    With(LabelOf(c.instanceName), LAMBDA l :
        IF l.threw \/ Len(c.pins) < 2 THEN SerializeThrew
        ELSE IF c.pins[1].coord = 0 \/ c.pins[2].coord = 0 THEN SerializeThrew
        ELSE Serialized(Statement("\\draw[color=blue]",
                                  <<SerializeName(h[c.pins[1].coord]),
                                    SerializeName(h[c.pins[2].coord])>>,
                                  c.tikzComponentName, l.label,
                                  Pinmark(c.angle, h[c.pins[1].coord],
                                          h[c.pins[2].coord]),
                                  NoOpts)))

\* POTENTIAL_TYPE[...].printNetName
PrintNetName(tikzComponentName) == tikzComponentName \in {"vcc", "vee"}

\* NodeComponent.serialize of a PotentialComponent: the node text is
\* this.pin?.net?.getPrettyName(), a method class Net does not have
PotentialSerialize(c, h) ==
    IF c.pins = <<>> \/ PrintNetName(c.tikzComponentName) THEN SerializeThrew
    ELSE IF c.pins[1].coord = 0 THEN SerializeThrew
    ELSE Serialized(Statement("\\node[", <<SerializeName(h[c.pins[1].coord])>>,
                              c.tikzComponentName, <<>>, "",
                              [mirrorX |-> c.mirrorX, mirrorY |-> c.mirrorY,
                               angle |-> c.angle]))

\* NodeComponent.serialize of a Transistor: nodeText from the instance name,
\* coord the anchor coordinate or the coordinate of the anchor pin
TransistorSerialize(c, h) ==
    With(LabelOf(c.instanceName), LAMBDA l :
    With(IF c.anchorNr = 0 THEN c.anchorCoord
         ELSE IF c.anchorNr > Len(c.pins) \/ c.pins[c.anchorNr].coord = 0 THEN <<>>
         ELSE <<h[c.pins[c.anchorNr].coord]>>, LAMBDA coord :
        IF l.threw \/ coord = <<>> THEN SerializeThrew
        ELSE Serialized(Statement("\\node[", <<SerializeName(coord[1])>>,
                                  c.tikzComponentName, l.label, "",
                                  [mirrorX |-> c.mirrorX, mirrorY |-> c.mirrorY,
                                   angle |-> c.angle]))))

\* component.serialize(1), by the class of the component
Serialize(c, h) ==
    IF c.kind = "Path" THEN PathSerialize(c, h)
    ELSE IF c.kind = "Node" THEN PotentialSerialize(c, h)
    ELSE TransistorSerialize(c, h)

\* the argument of the n-th println of printToStream: the opening line, the
\* wires in list order, the empty line, the components in list order, the
\* closing line
SerializeAt(ws, cs, h, n) ==
    IF n = 1 THEN Serialized(TextLine("\\begin{tikzpicture}"))
    ELSE IF n <= Len(ws) + 1 THEN WireSerialize(ws[n - 1], h)
    ELSE IF n = Len(ws) + 2 THEN Serialized(TextLine(""))
    ELSE IF n <= Len(ws) + Len(cs) + 2 THEN Serialize(cs[n - Len(ws) - 2], h)
    ELSE Serialized(TextLine("\\end{tikzpicture}"))

\* out.write(line + "\n"): the sink takes the line, also when it returns
\* false, and then wants a "drain" before the next line
Write(s, accepted) == [s EXCEPT !.full = ~accepted]

\* a faulty println that resolves whatever write returned
SettleAtOnce(s, accepted) ==
    [waits |-> FALSE, sink |-> [s EXCEPT !.error = @ - 1]]

\* a faulty println that leaves its "error" listener on the sink
SettleKeepListener(s, accepted) ==
    IF accepted THEN [waits |-> FALSE, sink |-> s]
    ELSE [waits |-> TRUE, sink |-> [s EXCEPT !.drain = @ + 1]]

\* the promise of println after out.once("error", reject) and write: on
\* true out.off("error", reject) and resolve(), on false out.once("drain", ...)
Settle(s, accepted) ==
    IF accepted THEN [waits |-> FALSE, sink |-> [s EXCEPT !.error = @ - 1]]
    ELSE [waits |-> TRUE, sink |-> [s EXCEPT !.drain = @ + 1]]

\* the phase after a println has resolved
Resolved(lines) ==
    IF lines = Len(wires) + Len(components) + 3 THEN "printed" ELSE "printing"

\* one `await println(...)` of printToStream, called on the schematic fromXML
\* returned, up to the write: an exception of serialize() rejects the
\* promise of printToStream before println is called, and nothing more is
\* written; write returns true or false as the sink decides
Println ==
    /\ phase \in {"parsed", "printing"}
    /\ \E r \in {SerializeAt(wires, components, heap, Len(out) + 1)} :
         IF r.threw
         THEN phase' = "printThrew" /\ out' = out /\ sink' = sink
         ELSE \E accepted \in BOOLEAN :
              \E p \in {Settle(Write([sink EXCEPT !.error = @ + 1], accepted),
                               accepted)} :
                  /\ out' = Append(out, r.text)
                  /\ sink' = p.sink
                  /\ phase' = IF p.waits THEN "waiting" ELSE Resolved(Len(out) + 1)
    /\ UNCHANGED <<view, error, catalog, heap, coords, nets, netObjs, wires,
                   components, doc, uuids>>

\* the sink emits "drain": the listeners println left on it run, each
\* removes the "error" listener of its line and resolves its promise, which
\* lets printToStream go on unless it has been rejected
Drain ==
    /\ sink.full
    /\ sink' = [full |-> FALSE,
                error |-> IF sink.drain > 0 /\ sink.error > 0
                          THEN sink.error - 1 ELSE sink.error,
                drain |-> 0]
    /\ phase' = IF phase = "waiting" /\ sink.drain > 0 THEN Resolved(Len(out))
                ELSE phase
    /\ UNCHANGED <<view, error, catalog, heap, coords, nets, netObjs, wires,
                   components, doc, uuids, out>>

\* the sink emits "error" while a line is pending: the once-listener is
\* removed and rejects the promise of println, and with it printToStream;
\* the listener for "drain" stays.  An "error" at another time finds no
\* listener of printToStream and is not modelled
SinkError ==
    /\ phase = "waiting"
    /\ sink.error > 0
    /\ phase' = "rejected"
    /\ sink' = [sink EXCEPT !.error = @ - 1]
    /\ UNCHANGED <<view, error, catalog, heap, coords, nets, netObjs, wires,
                   components, doc, uuids, out>>

\* a resistor whose instance name has no digits
Rload == Instance("ads_rflib", "R", "Rload", At(Inch \div 2, Inch, 0, 1, 1, FALSE, FALSE),
                  <<InstPin(1, "", "VCC"), InstPin(2, "", "N1")>>)

\* the instances of the views that are printed
PrintInputs == {R1, R3, Cap1, G1, Q1, Rload}

NextPrint ==
    \/ \E v \in ViewInputs : BeginParse(v)
    \/ \E w \in WireInputs : ParseWire(w)
    \/ EndWires
    \/ \E inst \in PrintInputs : PlaceInstance(inst, MaxInstances)
    \/ EndInstances
    \/ Println
    \/ Drain
    \/ SinkError
    \/ NewView

SpecPrint == Init /\ [][NextPrint]_vars

---------------------------------------------------------------------------
(* Views printed to a sink that may ask to wait and may fail *)

\* instances whose names serialize() can label
StreamInputs == {R1, G1}

NextStream ==
    \/ \E v \in ViewInputs : BeginParse(v)
    \/ ParseWire(WireVCC)
    \/ EndWires
    \/ \E inst \in StreamInputs : PlaceInstance(inst, MaxInstances)
    \/ EndInstances
    \/ Println
    \/ Drain
    \/ SinkError
    \/ NewView

SpecStream == Init /\ [][NextStream]_vars

\* printToStream is an async function: once the promise it awaits has
\* resolved the event loop resumes it, and the sink, once it has returned
\* false, is taken to emit "drain" when its buffer has been flushed
SpecStreamFair == SpecStream /\ WF_vars(Println) /\ WF_vars(Drain)

---------------------------------------------------------------------------
(* Views whose pins lie at the edge of the search distance *)

\* 1 / 2.54 inch: scaled, exactly the search distance
Edge == (UNIT * InRes) \div SCALE

\* a second wire of VCC, an inch above the first
WireFar == [net |-> "VCC", pts |-> <<Pt(0, Inch), Pt(Inch, Inch)>>]

\* a wire of another net that passes between the vertices of VCC
WireN1 == [net |-> "N1", pts |-> <<Pt(Edge, Edge \div 2), Pt(Edge, Inch)>>]

SnapWires == {WireVCC, WireFar, WireN1}

\* a ground on VCC whose pin is exactly the search distance from the vertex
\* (0, 0) of WireVCC
GEdge == Instance("ads_rflib", "GROUND", "G1", At(Edge, 0, 0, 1, 1, FALSE, FALSE),
                  <<InstPin(1, "", "VCC")>>)

\* a ground on VCC half the search distance from that vertex
GNear == Instance("ads_rflib", "GROUND", "G2", At(Edge \div 2, 0, 0, 1, 1, FALSE, FALSE),
                  <<InstPin(1, "", "VCC")>>)

\* a ground on VCC just beyond the search distance
GBeyond == Instance("ads_rflib", "GROUND", "G3", At(Edge + 1000, 0, 0, 1, 1, FALSE, FALSE),
                    <<InstPin(1, "", "VCC")>>)

\* a ground whose pin record carries no net
GNoNet == Instance("ads_rflib", "GROUND", "G4", At(Edge, Edge \div 2, 0, 1, 1, FALSE, FALSE),
                   <<InstPin(1, "", NoNetTag)>>)

SnapInputs == {GEdge, GNear, GBeyond, GNoNet, R1, R2}

NextSnap ==
    \/ \E v \in ViewInputs : BeginParse(v)
    \/ \E w \in SnapWires : ParseWire(w)
    \/ EndWires
    \/ \E inst \in SnapInputs : PlaceInstance(inst, MaxInstances)
    \/ EndInstances
    \/ NewView

SpecSnap == Init /\ [][NextSnap]_vars

---------------------------------------------------------------------------
(* Views whose instances share coordinates between their pins *)

\* a wire of N1 with a vertex between the top and the tap pin of a
\* transistor at (0, 0)
WireJoint == [net |-> "N1", pts |-> <<Pt(Inch \div 4, Inch \div 4), Pt(Inch \div 4, Inch)>>]

PinWires == {WireVCC, WireJoint}

\* a transistor whose top and tap terminal are both on N1
QDiode == Instance("ads_rflib", "BJT_NPN", "Q4", At(0, 0, 0, 1, 1, FALSE, FALSE),
                   <<InstPin(1, "", "N1"), InstPin(2, "", "N1"), InstPin(3, "", "")>>)

\* a resistor whose record lists terminal 2 first and has a third pin
R6 == Instance("ads_rflib", "R", "R6", At(0, Inch, 0, 1, 1, FALSE, FALSE),
               <<InstPin(3, "", "VCC"), InstPin(2, "", "N1"), InstPin(1, "", "VCC")>>)

\* a resistor turned by 90, stretched in x and mirrored about the x axis
R7 == Instance("ads_rflib", "R", "R7", At(Inch, 0, 90, 2, 1, TRUE, FALSE),
               <<InstPin(1, "", "VCC"), InstPin(2, "", "N2")>>)

\* a capacitor turned by -90 + 360 and mirrored about the y axis
Cap3 == Instance("ads_rflib", "C", "C3", At(0, -Inch, 270, 1, 3, FALSE, TRUE),
                 <<InstPin(1, "", "N2"), InstPin(2, "", "N3")>>)

\* an operational amplifier whose record names terminal 3 "P__0" and
\* terminal 1 "P__2"
U2 == Instance("ads_rflib", "OpAmp", "U2", At(Inch, 0, 0, 1, 1, FALSE, FALSE),
               <<InstPin(3, "P__0", "VCC"), InstPin(2, "P__1", "N1"),
                 InstPin(1, "P__2", "")>>)

PinInputs == {Q1, QDiode, U1, U2, R1, R6, R7, Cap1, Cap3}

NextPins ==
    \/ \E v \in ViewInputs : BeginParse(v)
    \/ \E w \in PinWires : ParseWire(w)
    \/ EndWires
    \/ \E inst \in PinInputs : PlaceInstance(inst, MaxInstances)
    \/ EndInstances
    \/ NewView

SpecPins == Init /\ [][NextPins]_vars

---------------------------------------------------------------------------
(* Views whose instances are turned by angles in and out of (-180, 180] *)

TurnAngles == {-630, -180, 0, 90, 270, 900}

\* a ground, a resistor and a transistor at every such angle
TurnInputs ==
    {Instance("ads_rflib", "GROUND", "G1", At(Inch, Inch, a, 1, 1, FALSE, FALSE),
              <<InstPin(1, "", "VCC")>>) : a \in TurnAngles}
    \cup {Instance("ads_rflib", "R", "R1", At(0, Inch, a, 1, 1, FALSE, FALSE),
                   <<InstPin(1, "", "VCC"), InstPin(2, "", "N1")>>) : a \in TurnAngles}
    \cup {Instance("ads_rflib", "BJT_NPN", "Q1", At(0, 0, a, 1, 1, FALSE, FALSE), BjtPins) :
              a \in TurnAngles}

NextTurn ==
    \/ \E v \in ViewInputs : BeginParse(v)
    \/ ParseWire(WireVCC)
    \/ EndWires
    \/ \E inst \in TurnInputs : PlaceInstance(inst, MaxInstances)
    \/ EndInstances
    \/ NewView

SpecTurn == Init /\ [][NextTurn]_vars

---------------------------------------------------------------------------
(* Component.cloneToPosition (component.mjs): the placement of a stencil of *)
(* class Component, with a search that has no maximum distance             *)

\* Number.MAX_VALUE, squared like every distance here: more than the
\* distance of any two coordinates of the documents explored
MAX_VALUE == 2147483647

\* a faulty start of the reduce with a search distance of 1
NoVertexNear == [distance |-> MaxSearchDistance * MaxSearchDistance, coord |-> 0]

\* { distance: Number.MAX_VALUE, coord: null }
NoVertexMax == [distance |-> MAX_VALUE, coord |-> 0]

\* wires.filter((wire) => wire.net == pin.net).map(reduce)
RECURSIVE PossibleCoordsUnbounded(_, _, _, _, _)
PossibleCoordsUnbounded(h, ws, net, v, i) ==
    IF i > Len(ws) THEN <<>>
    ELSE IF ws[i].net = net
         THEN <<ClosestOnWire(h, ws[i].coords, v, 1, NoVertexMax)>>
              \o PossibleCoordsUnbounded(h, ws, net, v, i + 1)
         ELSE PossibleCoordsUnbounded(h, ws, net, v, i + 1)

\* new Component("iec connector", null, TWO_POLE_COMPONENT_PINS)
IecConnector ==
    [kind |-> "Component", tikzComponentName |-> "iec connector",
     pins |-> TWO_POLE_COMPONENT_PINS]

\* the body of pins.forEach in cloneToPosition for one pin: the hint of the
\* stencil pin with the pin's terminal number, made absolute, or the
\* instance coordinate; then the nearest vertex of the pin's net, or the
\* entry of the coordinate list
PinToPosition(pin, stencilPins, placement, instanceCoord, ws, h, cs) ==
    With(HintIndex(stencilPins, pin.instTermNumber), LAMBDA k :
    With(IF k # 0 THEN Transform(stencilPins[k].coord, placement, h[instanceCoord])
         ELSE h[instanceCoord], LAMBDA v :
    With(IF pin.net = 0 THEN 0
         ELSE SortedFirst(PossibleCoordsUnbounded(h, ws, pin.net, v, 1)), LAMBDA snapped :
        IF snapped # 0
        THEN [heap |-> h, coords |-> cs,
              pin |-> [pin EXCEPT !.computed = <<v>>, !.coord = snapped]]
        ELSE With(PoolFind(h, cs, v), LAMBDA existing :
             IF existing # 0
             THEN [heap |-> h, coords |-> cs,
                   pin |-> [pin EXCEPT !.computed = <<v>>, !.coord = existing]]
             ELSE [heap |-> Append(h, v), coords |-> Append(cs, Len(h) + 1),
                   pin |-> [pin EXCEPT !.computed = <<v>>, !.coord = Len(h) + 1]]))))

\* pins.forEach(...), one pin after the other
RECURSIVE PinsToPosition(_, _, _)
PinsToPosition(st, i, ctx) ==
    IF i > Len(st.pins) THEN st
    ELSE With(PinToPosition(st.pins[i], ctx.stencilPins, ctx.placement,
                            ctx.instanceCoord, ctx.wires, st.heap, st.coords),
              LAMBDA r :
         With([heap |-> r.heap, coords |-> r.coords,
               pins |-> [st.pins EXCEPT ![i] = r.pin]], LAMBDA next :
              PinsToPosition(next, i + 1, ctx)))

\* cloneToPosition(libraryName, cellName, instanceName, attributes, pins,
\* placement, wires, nets, coords) of a stencil
CloneToPosition(stencil, instanceName, pins, placement, ws, h, cs) ==
    With(NormalizeAngle(placement.angle), LAMBDA angle :
    With(Intern(h, cs, InstanceCoord(placement)), LAMBDA origin :
    With(PinsToPosition([heap |-> origin.heap, coords |-> origin.coords, pins |-> pins],
                        1,
                        [stencilPins |-> stencil.pins,
                         placement |-> [placement EXCEPT !.angle = angle],
                         instanceCoord |-> origin.id, wires |-> ws]), LAMBDA r :
        [heap |-> r.heap, coords |-> r.coords,
         component |-> [NewComponent("Component", stencil.tikzComponentName,
                                     instanceName, r.pins, angle,
                                     placement.mirrorX, placement.mirrorY)
                        EXCEPT !.anchorCoord = <<r.heap[origin.id]>>]])))

\* the placement of one instance with the stencil's cloneToPosition
PlaceByClone(inst, limit) ==
    /\ phase = "instances"
    /\ Len(doc) < limit
    /\ \E mp \in {MakePins(inst.pins, 1, [nets |-> nets, netObjs |-> netObjs,
                                         uuids |-> uuids, pins |-> <<>>])} :
       \E r \in {CloneToPosition(IecConnector, inst.instanceName, mp.pins,
                                 Placement(inst.placement), wires, heap, coords)} :
           /\ heap' = r.heap
           /\ coords' = r.coords
           /\ nets' = mp.nets
           /\ netObjs' = mp.netObjs
           /\ uuids' = mp.uuids
           /\ components' = Append(components, r.component)
           /\ doc' = Append(doc, [inst |-> inst, outcome |-> "placed",
                                  component |-> Len(components) + 1])
    /\ UNCHANGED <<phase, view, error, catalog, wires, out, sink>>

\* a connector far from every wire, both terminals on VCC
Far == Instance("mylib", "IEC", "X2", At(2 * Inch, -Inch, 90, 1, 1, FALSE, FALSE),
                <<InstPin(1, "", "VCC"), InstPin(2, "", "VCC")>>)

CloneInputs == {R1, R2, R6, G1, Far}

NextClone ==
    \/ \E v \in ViewInputs : BeginParse(v)
    \/ \E w \in WireInputs : ParseWire(w)
    \/ EndWires
    \/ \E inst \in CloneInputs : PlaceByClone(inst, MaxInstances)
    \/ EndInstances
    \/ NewView

SpecClone == Init /\ [][NextClone]_vars

---------------------------------------------------------------------------
(* Properties: the coordinate list and the net table *)

\* the positions of the coordinate list that hold a Coordinate
PoolIndices == {i \in 1..Len(coords) : coords[i] # 0}

\* C1 -- Coordinate Pool uniqueness: in every state reached while a view is
\* processed, no two entries of the coordinate list have the same x and the
\* same y.
C1_PoolUnique ==
    \A i, j \in PoolIndices :
        i # j => ~Equals(heap[coords[i]], heap[coords[j]])

\* the placed pins, as <<component, pin>> index pairs
PlacedPins ==
    UNION {{<<c, k>> : k \in 1..Len(components[c].pins)} : c \in 1..Len(components)}

PinAt(ck) == components[ck[1]].pins[ck[2]]

\* the wire vertices, as <<wire, vertex>> index pairs
WireVertices ==
    UNION {{<<w, k>> : k \in 1..Len(wires[w].coords)} : w \in 1..Len(wires)}

\* every Coordinate object a wire vertex or a placed pin refers to
Refs ==
    {wires[wk[1]].coords[wk[2]] : wk \in WireVertices}
    \cup ({PinAt(ck).coord : ck \in PlacedPins} \ {0})

\* C2 -- Canonicalization identity: every coordinate interned by wire
\* parsing, by the instance origin or by the pin fallback resolves to an entry
\* of the coordinate list, and two such coordinates are the same object if and
\* only if they have the same x and y.
C2_Canonical ==
    /\ \A a \in Refs : \E i \in PoolIndices : coords[i] = a
    /\ \A a, b \in Refs \cup {coords[i] : i \in PoolIndices} :
           Equals(heap[a], heap[b]) <=> a = b

\* the name a wire or pin record carries: "" when the tag or name is missing
CarriedName(n) == IF n = NoNetTag THEN "" ELSE n

\* C3 (as stated) -- Net singleton: for every net name, the empty name
\* included, all wires and all instance pins that carry the name reference one
\* and the same Net object.
C3_SingletonEveryName ==
    /\ \A w1, w2 \in 1..Len(wires) :
           CarriedName(wires[w1].inNet) = CarriedName(wires[w2].inNet)
               => wires[w1].net = wires[w2].net
    /\ \A p1, p2 \in PlacedPins :
           PinAt(p1).inNet = PinAt(p2).inNet => PinAt(p1).net = PinAt(p2).net
    /\ \A w \in 1..Len(wires), p \in PlacedPins :
           CarriedName(wires[w].inNet) = PinAt(p).inNet => wires[w].net = PinAt(p).net

\* C3 (amended) -- Net singleton: all wires and pins that carry the same
\* non-empty name reference one Net object of that name, and the net table
\* never holds two Nets of one name; the wires without a name share the one
\* Net named ""; a pin without a name gets a Net of its own, which no other
\* pin and no wire references.
C3_NetSingleton ==
    /\ \A i, j \in 1..Len(nets) : nets[i].key = nets[j].key => i = j
    /\ \A i, j \in 1..Len(netObjs) : netObjs[i].netname = netObjs[j].netname => i = j
    /\ \A w1, w2 \in 1..Len(wires) :
           CarriedName(wires[w1].inNet) = CarriedName(wires[w2].inNet)
               => wires[w1].net = wires[w2].net
    /\ \A w \in 1..Len(wires) :
           netObjs[wires[w].net].netname = CarriedName(wires[w].inNet)
    /\ \A p1, p2 \in PlacedPins :
           IF PinAt(p1).inNet # ""
           THEN /\ netObjs[PinAt(p1).net].netname = PinAt(p1).inNet
                /\ PinAt(p1).inNet = PinAt(p2).inNet => PinAt(p1).net = PinAt(p2).net
           ELSE p1 # p2 => PinAt(p1).net # PinAt(p2).net
    /\ \A w \in 1..Len(wires), p \in PlacedPins :
           IF PinAt(p).inNet # ""
           THEN CarriedName(wires[w].inNet) = PinAt(p).inNet => wires[w].net = PinAt(p).net
           ELSE wires[w].net # PinAt(p).net

\* a wire and a pin share the Net "VCC" while a wire and a pin without name
\* are present
C3_Witness ==
    /\ \E w \in 1..Len(wires), p \in PlacedPins :
           wires[w].inNet = "VCC" /\ PinAt(p).inNet = "VCC" /\ wires[w].net = PinAt(p).net
    /\ \E w \in 1..Len(wires) : CarriedName(wires[w].inNet) = ""
    /\ \E p1, p2 \in PlacedPins : p1 # p2 /\ PinAt(p1).inNet = "" /\ PinAt(p2).inNet = ""

---------------------------------------------------------------------------
(* Properties: snapping of Path instances *)

\* the step appends a component of the given kind
Places(kind) ==
    /\ Len(components') = Len(components) + 1
    /\ components'[Len(components')].kind = kind

\* a position lands on a wire vertex of a net: the vertex is within the
\* search distance and nearer than every other vertex of the net's wires
LandsOn(c, vertex, net) ==
    /\ Dist2(c, heap[vertex]) < MaxSearchDistance * MaxSearchDistance
    /\ \A wk \in WireVertices :
           (wires[wk[1]].net = net /\ wires[wk[1]].coords[wk[2]] # vertex)
               => Dist2(c, heap[wires[wk[1]].coords[wk[2]]]) > Dist2(c, heap[vertex])

\* C4 -- Snapping idempotence: when a Path instance is placed and one of its
\* terminals lands on a wire vertex of its net that a terminal of an earlier
\* Path instance already landed on, the new pin holds the same Coordinate
\* object as the earlier pin, and that object is the wire's own vertex.
C4_SnappingIdempotence ==
    [][Places("Path") =>
          \A k \in 1..Len(components'[Len(components')].pins) :
          \A q \in PlacedPins :
          \A wk \in WireVertices :
              LET p == components'[Len(components')].pins[k]
                  vertex == wires[wk[1]].coords[wk[2]]
              IN  (/\ components[q[1]].kind = "Path"
                   /\ wires[wk[1]].net = p.net
                   /\ PinAt(q).net = p.net
                   /\ PinAt(q).coord = vertex
                   /\ LandsOn(p.computed[1], vertex, p.net))
                  => (p.coord = vertex /\ p.coord = PinAt(q).coord)]_vars

\* two Path instances hold the same wire vertex of their net, one of them
\* after its terminal was computed away from the vertex
C4_Witness ==
    \E p, q \in PlacedPins : \E wk \in WireVertices :
        /\ p[1] # q[1]
        /\ components[p[1]].kind = "Path" /\ components[q[1]].kind = "Path"
        /\ PinAt(p).coord = wires[wk[1]].coords[wk[2]]
        /\ PinAt(q).coord = PinAt(p).coord
        /\ PinAt(p).net = wires[wk[1]].net /\ PinAt(q).net = wires[wk[1]].net
        /\ PinAt(p).computed # <<heap[PinAt(p).coord]>>

\* scenario 1: the one wire "VCC" through "0,0 1,0" and the one resistor R1
Scenario1 ==
    /\ Len(wires) = 1
    /\ wires[1].inNet = "VCC"
    /\ [k \in 1..Len(wires[1].coords) |-> heap[wires[1].coords[k]]]
           = <<Coord(0, 0), Coord((254 * UNIT) \div 100, 0)>>
    /\ Len(doc) = 1
    /\ doc[1].inst = R1
    /\ doc[1].outcome = "placed"

\* the pins of a component with a terminal number
Terminal(c, n) == {k \in 1..Len(components[c].pins) : components[c].pins[k].instTermNumber = n}

\* C5 (as stated) -- Scenario 1: terminal 1 of the resistor at (0.5, 0),
\* wired to "VCC", resolves to the Pool entry of the wire vertex (0,0).
C5_SnapsToVertex ==
    Scenario1 =>
        \A k \in Terminal(1, 1) : components[1].pins[k].coord = wires[1].coords[1]

\* C5 (amended) -- Scenario 1: both vertices of the wire are 1.27 away from
\* terminal 1's nominal point (1.27, 0), farther than the search distance 1;
\* terminal 1 resolves to the Pool entry of the nominal point, which is the
\* entry of the instance position and no vertex of the wire.
C5_StaysNominal ==
    Scenario1 =>
        /\ Terminal(1, 1) # {}
        /\ \A k \in Terminal(1, 1) :
               LET c == components[1].pins[k].coord IN
               /\ heap[c] = Coord((127 * UNIT) \div 100, 0)
               /\ \E i \in PoolIndices : coords[i] = c
               /\ \A v \in 1..Len(wires[1].coords) :
                      /\ wires[1].coords[v] # c
                      /\ Dist2(heap[c], heap[wires[1].coords[v]])
                             > MaxSearchDistance * MaxSearchDistance

C5_Witness == Scenario1 /\ Len(components) = 1 /\ components[1].kind = "Path"

---------------------------------------------------------------------------
(* Properties: Oriented instances and wires *)

\* the document record a component came from
RecordOf(c) == CHOOSE i \in 1..Len(doc) : doc[i].component = c

\* a triangle seen from its line-crossing point
AboutCrossing(tri) == [i \in 1..Len(tri) |-> Subtract(tri[i], LineCrossingCoord(tri))]

\* C6 -- Oriented alignment: after the anatomical triangle was scaled,
\* rotated, mirrored and translated and the template triangle rotated,
\* mirrored and translated, both have the same line-crossing point, for the
\* angles 0, 90, 180, -90 and every mirror combination; under mirrorX each
\* triangle, seen from that point, is the triangle of the same placement
\* without mirrorX with its Y components inverted.
C6_OrientedAlignment ==
    \A c \in 1..Len(components) :
        components[c].kind = "Oriented" =>
            LET inst == doc[RecordOf(c)].inst
                mapper == Lookup(inst.libraryName, inst.cellName)
                placement == Placement(inst.placement)
                plain == [placement EXCEPT !.mirrorX = FALSE]
                plainAbl == AblTriangle(mapper, plain)
                plainTpl == TemplateTriangle(mapper, plain, plainAbl).pins
            IN  /\ LineCrossingCoord(components[c].tpl) = LineCrossingCoord(components[c].abl)
                /\ placement.mirrorX =>
                       /\ AboutCrossing(components[c].abl)
                              = [i \in 1..3 |-> MirrorX(AboutCrossing(plainAbl)[i])]
                       /\ AboutCrossing(components[c].tpl)
                              = [i \in 1..3 |-> MirrorX(AboutCrossing(plainTpl)[i])]

\* an op amp turned by 90 degrees and mirrored on X has been placed
C6_Witness ==
    \E c \in 1..Len(components) :
        /\ components[c].kind = "Oriented"
        /\ components[c].tikzComponentName = "op amp"
        /\ doc[RecordOf(c)].inst.placement.mirrorX
        /\ doc[RecordOf(c)].inst.placement.angle = 90
        /\ LineCrossingCoord(components[c].tpl) # InstanceCoord(doc[RecordOf(c)].inst.placement)

\* C7 -- Wire immutability: once a wire is constructed, its net and the x
\* and y of each of its vertices never change for the rest of the view's
\* processing, whatever is placed afterwards.
C7_WiresImmutable ==
    [][phase' # "new" => \A w \in 1..Len(wires) :
           /\ wires'[w].net = wires[w].net
           /\ wires'[w].coords = wires[w].coords
           /\ \A k \in 1..Len(wires[w].coords) :
                  heap'[wires[w].coords[k]] = heap[wires[w].coords[k]]]_vars

---------------------------------------------------------------------------
(* Properties: instances without stencil, Node instances, errors *)

\* the step reads one more instance record
ReadsInstance == Len(doc') = Len(doc) + 1

\* neither "library:cell" nor the cell name is a key of the catalog
Unknown(inst) ==
    /\ (inst.libraryName \o ":" \o inst.cellName) \notin DOMAIN ADS_COMPONENTS_MAP
    /\ inst.cellName \notin DOMAIN ADS_COMPONENTS_MAP

\* the TikZ name a stencil draws
DrawnAs(stencil) ==
    IF stencil.kind = "Oriented" THEN stencil.tikzTransistor.tikzComponentName
    ELSE stencil.tikzComponentName

\* C8 -- Unknown stencil is skipped: for an instance whose keys are both
\* absent from the catalog no component is appended and the coordinate list,
\* the net table and the wire list stay as they were; processing goes on, and
\* every other instance whose placement completes is appended to the
\* component list in document order.
C8_UnknownSkipped ==
    [][ReadsInstance =>
          LET e == doc'[Len(doc')] IN
          IF Unknown(e.inst)
          THEN /\ components' = components
               /\ coords' = coords
               /\ heap' = heap
               /\ nets' = nets
               /\ netObjs' = netObjs
               /\ wires' = wires
               /\ phase' = "instances"
          ELSE phase' # "threw" =>
                   /\ Len(components') = Len(components) + 1
                   /\ \A c \in 1..Len(components) :
                          components'[c].instanceName = components[c].instanceName
                   /\ components'[Len(components')].tikzComponentName
                          = DrawnAs(Lookup(e.inst.libraryName, e.inst.cellName))]_vars

\* an instance was placed after an unknown one was skipped
C8_Witness ==
    /\ Len(doc) = 2
    /\ doc[1].outcome = "skipped"
    /\ doc[2].outcome = "placed"
    /\ Len(components) = 1
    /\ components[1].instanceName = doc[2].inst.instanceName

\* x * SCALE, y * SCALE for an instance at (x, y)
ScaledPosition(p) == Coord((p.x * SCALE) \div InRes, (p.y * SCALE) \div InRes)

\* no vertex of a wire of the net is within the search distance of c
NothingToSnapTo(c, net) ==
    \A wk \in WireVertices :
        wires[wk[1]].net = net
            => Dist2(c, heap[wires[wk[1]].coords[wk[2]]]) > MaxSearchDistance * MaxSearchDistance

\* C9 -- Scenario 3 (Node): for a ground placed at (x, y) whose pin's net has
\* no wire vertex to snap to, the sole pin's coordinate is the Pool entry
\* equal to (x*SCALE, y*SCALE), whatever angle, scale and mirroring the
\* placement has, and the Pool gains exactly one entry when it held no
\* value-equal entry before, none when it did.
C9_NodePlacement ==
    [][(ReadsInstance /\ Places("Node")) =>
          LET p == doc'[Len(doc')].inst.placement
              pin == components'[Len(components')].pins[1]
              origin == ScaledPosition(p)
          IN  (p.present /\ NothingToSnapTo(origin, pin.net)) =>
                  /\ Len(components'[Len(components')].pins) = 1
                  /\ heap'[pin.coord] = origin
                  /\ \E i \in 1..Len(coords') : coords'[i] = pin.coord
                  /\ SubSeq(coords', 1, Len(coords)) = coords
                  /\ Len(coords') =
                         IF \E i \in PoolIndices : Equals(heap[coords[i]], origin)
                         THEN Len(coords) ELSE Len(coords) + 1]_vars

\* the ground of scenario 3 was placed while its net has a wire, far away
C9_Witness ==
    /\ Len(doc) >= 1
    /\ doc[Len(doc)].inst = G1
    /\ doc[Len(doc)].outcome = "placed"
    /\ \E w \in 1..Len(wires) : wires[w].net = components[Len(components)].pins[1].net
    /\ heap[components[Len(components)].pins[1].coord]
           = Coord(2 * ((254 * UNIT) \div 100), -((254 * UNIT) \div 100))

\* C10 -- Placement raises no error: once a stencil has been found, placing
\* the instance completes without throwing for every set of live pins.
C10_NoThrow ==
    /\ phase # "threw"
    /\ \A i \in 1..Len(doc) : doc[i].outcome # "threw"

---------------------------------------------------------------------------
(* Properties: the catalog *)

\* C11 -- Stencil immutability: after any sequence of placements of any
\* kind, in this view and in the views processed before it, every stencil of
\* the catalog is as it was loaded: the local coordinates, names and terminal
\* numbers of its pins, its angle and mirror flags, and the anatomical pins
\* of every transistor mapper.
C11_StencilsImmutable == catalog = ADS_COMPONENTS_MAP

\* a transistor and a two-pole have been placed from their stencils, the
\* two-pole turned and away from the origin
C11_Witness ==
    \E c1, c2 \in 1..Len(components) :
        /\ components[c1].kind = "Oriented"
        /\ components[c2].kind = "Path"
        /\ \E k \in 1..Len(components[c2].pins) :
               components[c2].pins[k].computed
                   # <<Lookup(doc[RecordOf(c2)].inst.libraryName,
                              doc[RecordOf(c2)].inst.cellName).pins[k].coord>>

---------------------------------------------------------------------------
(* Properties: the order of parsing *)

\* C12 -- Wires before instances: when an instance record is read, the wire
\* parsing is over and every wire is in the wire list of its net; the step
\* leaves the wire list and the nets' wire lists as they are, and from the
\* first instance on the wire list is the same for the rest of the view, so
\* every instance is snapped against the same complete set of wires.
C12_WiresBeforeInstances ==
    [][/\ ReadsInstance =>
              /\ phase = "instances"
              /\ wires' = wires
              /\ \A n \in 1..Len(netObjs) : netObjs'[n].wires = netObjs[n].wires
              /\ \A w \in 1..Len(wires) :
                     \E k \in 1..Len(netObjs[wires[w].net].wires) :
                         netObjs[wires[w].net].wires[k] = w
       /\ (doc # <<>> /\ phase' # "new") => wires' = wires]_vars

\* two instances of the document have each a pin on a vertex of a wire of
\* the pin's net
C12_Witness ==
    /\ Len(doc) >= 2
    /\ \E p, q \in PlacedPins : \E wk, wl \in WireVertices :
           /\ p[1] # q[1]
           /\ PinAt(p).coord = wires[wk[1]].coords[wk[2]]
           /\ PinAt(p).net = wires[wk[1]].net
           /\ PinAt(q).coord = wires[wl[1]].coords[wl[2]]
           /\ PinAt(q).net = wires[wl[1]].net

\* C13 -- Structural errors are fatal and descriptive: when the view lacks
\* its shapes section or its instances section, parsing has stopped with an
\* error whose message is that of assertTagFound for the missing tag, and no
\* schematic is built.
C13_MissingSectionNamed ==
    \A i \in 1..Len(view) :
        /\ ~view[i].shapes =>
               phase = "error" /\ error = AssertTagFound("shapes")
        /\ (view[i].shapes /\ ~view[i].instances) =>
               phase = "error" /\ error = AssertTagFound("instances")

---------------------------------------------------------------------------
(* Properties: the point list of a wire *)

\* the step appends a wire
ReadsWire == Len(wires') = Len(wires) + 1

\* the tokens of a point list whose x and y are finite numbers
Parsable(pts) == SelectSeq(pts, LAMBDA t : t.xfinite /\ t.yfinite)

\* C14 -- Unparsable wire coordinates are skipped per item: the vertices of
\* a parsed wire are the parsable tokens of its point list, scaled, in their
\* order; a token that does not parse gives no vertex and no entry of the
\* coordinate list (every new entry has the value of a parsable token); the
\* wire is appended and the parsing of wires goes on.
C14_BadTokenSkipped ==
    [][ReadsWire =>
          LET wire == wires'[Len(wires')]
              good == Parsable(wire.pts)
          IN  /\ Len(wire.coords) = Len(good)
              /\ \A k \in 1..Len(good) :
                     heap'[wire.coords[k]]
                         = Coord((good[k].x * SCALE) \div InRes, (good[k].y * SCALE) \div InRes)
              /\ SubSeq(coords', 1, Len(coords)) = coords
              /\ \A i \in (Len(coords) + 1)..Len(coords') :
                     \E k \in 1..Len(good) : coords'[i] = wire.coords[k]
              /\ phase' = "wires"
              /\ SubSeq(wires', 1, Len(wires)) = wires]_vars

\* a wire with a token that does not parse between two that do has its two
\* vertices; a wire after it and an instance after that were processed
C14_Witness ==
    /\ Len(wires) = 2
    /\ \E k \in 2..(Len(wires[1].pts) - 1) : ~wires[1].pts[k].yfinite
    /\ Len(wires[1].coords) = 2
    /\ Len(components) >= 1

---------------------------------------------------------------------------
(* Properties: the lookup of the stencil *)

\* C15 -- Catalog priority: an instance whose "libraryName:cellName" is a key
\* of the catalog is placed with the stencil of that key, also when the bare
\* cellName is a key too; the stencil of the bare cellName is used only when
\* "libraryName:cellName" is no key.
C15_CatalogPriority ==
    [][(ReadsInstance /\ Len(components') = Len(components) + 1) =>
          LET inst == doc'[Len(doc')].inst
              key == inst.libraryName \o ":" \o inst.cellName
              drawn == components'[Len(components')].tikzComponentName
          IN  IF key \in DOMAIN catalog THEN drawn = DrawnAs(catalog[key])
              ELSE /\ inst.cellName \in DOMAIN catalog
                   /\ drawn = DrawnAs(catalog[inst.cellName])]_vars

\* the catalog has the keys "ads_rflib:C" and "C" for different stencils; a
\* capacitor of ads_rflib was drawn with the first, one of another library
\* with the second
C15_Witness ==
    /\ "ads_rflib:C" \in DOMAIN catalog
    /\ DrawnAs(catalog["ads_rflib:C"]) # DrawnAs(catalog["C"])
    /\ \E c1, c2 \in 1..Len(components) :
           /\ doc[RecordOf(c1)].inst = Cap1
           /\ components[c1].tikzComponentName = "R"
           /\ doc[RecordOf(c2)].inst = Cap2
           /\ components[c2].tikzComponentName = "cC"

---------------------------------------------------------------------------
(* Properties: Coordinate.rotate *)

\* the sum of a sequence of angles
RECURSIVE SumOf(_)
SumOf(angles) == IF angles = <<>> THEN 0 ELSE Head(angles) + SumOf(Tail(angles))

\* the quarter turns in a whole angle, counted counter-clockwise: 0..3
Quarter(angle) == (angle \div 90) % 4

\* (x, y) turned counter-clockwise by q quarter turns
Turned(c, q) ==
    CASE q = 0 -> c
      [] q = 1 -> [x |-> -c.y, y |-> c.x]
      [] q = 2 -> [x |-> -c.x, y |-> -c.y]
      [] q = 3 -> [x |-> c.y, y |-> -c.x]

\* C16 -- Rotation algebra: a coordinate rotated by angles of {0, 90, 180,
\* -90}, each possibly a whole number of turns off, is the original turned
\* counter-clockwise by the sum of the angles: rotate(90) maps (x, y) to
\* (-y, x), rotate(360k + angle) does what rotate(angle) does, and
\* rotate(angle) followed by rotate(-angle) restores x and y exactly.
C16_RotationAlgebra ==
    phase = "rotate" =>
        /\ heap[2] = Turned(heap[1], Quarter(SumOf(doc)))
        /\ (Len(doc) = 2 /\ (doc[1] + doc[2]) % 360 = 0) => heap[2] = heap[1]

\* (1, 0.5) was rotated by 90 + 360 and then by -90, and is (1, 0.5) again
C16_Witness ==
    /\ phase = "rotate"
    /\ doc = <<450, -90>>
    /\ heap[1] = Coord(UNIT, UNIT \div 2)
    /\ heap[2] = heap[1]

---------------------------------------------------------------------------
(* Properties: the printed picture *)

\* the number of lines of the whole picture
PictureLength == Len(wires) + Len(components) + 3

\* C17 -- Fixed output order: printToStream emits the opening line, then one
\* statement per wire in wire-list order, then one empty separator line, then
\* one statement per component in component-list order, then the closing
\* line; what has been written is always the head of that sequence, and
\* when printToStream has ended no line of it is missing.
C17_OutputOrder ==
    /\ phase \in {"printing", "waiting", "printed", "printThrew"} =>
          /\ Len(out) <= PictureLength
          /\ \A n \in 1..Len(out) :
                /\ n = 1 => out[n] = TextLine("\\begin{tikzpicture}")
                /\ n \in 2..(Len(wires) + 1) =>
                       out[n] = WireSerialize(wires[n - 1], heap).text
                /\ n = Len(wires) + 2 => out[n] = TextLine("")
                /\ n \in (Len(wires) + 3)..(PictureLength - 1) =>
                       out[n].name = components[n - Len(wires) - 2].tikzComponentName
                /\ n = PictureLength => out[n] = TextLine("\\end{tikzpicture}")
    /\ phase \in {"printed", "printThrew"} => Len(out) = PictureLength

---------------------------------------------------------------------------
(* Properties: the search for the real position of a pin *)

\* the vertices of the wires of a net, as <<wire, vertex>> index pairs
VerticesOf(net) == {wk \in WireVertices : wires[wk[1]].net = net}

VertexAt(wk) == wires[wk[1]].coords[wk[2]]

\* the squared distance of a vertex from the computed coordinate of a pin
FromComputed(p, wk) == Dist2(p.computed[1], heap[VertexAt(wk)])

InRange(p, wk) == FromComputed(p, wk) <= MaxSearchDistance * MaxSearchDistance

\* C18 -- Nearest-vertex selection: when some vertex of a wire of the pin's
\* own net is no farther than the search distance 1 from the pin's computed
\* coordinate (distance exactly 1 included), the pin's final coordinate is
\* the object of a vertex of least distance among all vertices of all wires
\* of that net, whatever the order of the wires and whether or not other
\* wires of the net have a vertex in range.
C18_NearestVertex ==
    \A ck \in PlacedPins :
        LET p == PinAt(ck) IN
        (p.net # 0 /\ p.computed # <<>>
            /\ \E wk \in VerticesOf(p.net) : InRange(p, wk)) =>
                \E best \in VerticesOf(p.net) :
                    /\ p.coord = VertexAt(best)
                    /\ \A other \in VerticesOf(p.net) :
                           FromComputed(p, best) <= FromComputed(p, other)

\* the Coordinate objects of the coordinate list
PoolObjects(cs) == {cs[i] : i \in {j \in 1..Len(cs) : cs[j] # 0}}

\* C19 -- Snapping bound and fallback: a pin that findPosition leaves
\* elsewhere than at its computed coordinate is on a vertex of a wire of its
\* own net no farther than 1 from the computed coordinate; a pin without net,
\* or with no vertex of its net in range, ends on the one entry of the
\* coordinate list that is value-equal to the computed coordinate, which is
\* an entry the list had before whenever it had such an entry.
C19_SnapBoundAndFallback ==
    [][(phase = "instances" /\ Len(components') = Len(components) + 1) =>
        \A k \in 1..Len(components'[Len(components')].pins) :
            LET p == components'[Len(components')].pins[k]
                own == IF p.net = 0 THEN {} ELSE VerticesOf(p.net)
            IN  p.computed # <<>> =>
                /\ heap'[p.coord] # p.computed[1] =>
                       \E wk \in own : VertexAt(wk) = p.coord /\ InRange(p, wk)
                /\ (\A wk \in own : ~InRange(p, wk)) =>
                       /\ heap'[p.coord] = p.computed[1]
                       /\ p.coord \in PoolObjects(coords')
                       /\ \A c \in PoolObjects(coords') :
                              heap'[c] = p.computed[1] => c = p.coord
                       /\ (\E c \in PoolObjects(coords) : heap[c] = p.computed[1])
                              => p.coord \in PoolObjects(coords)]_vars

\* a ground just beyond the search distance of VCC's vertices lies on a new
\* entry of the list, a ground without net on the entry that is a vertex of
\* the wire of N1, and a ground in range of VCC, nearer to N1's vertex, on
\* VCC's vertex
C19_Witness ==
    /\ phase = "parsed"
    /\ Len(wires) = 2 /\ wires[1].pts = WireVCC.pts /\ wires[2].pts = WireN1.pts
    /\ Len(components) = 2
    /\ doc[1].inst = GEdge /\ components[1].pins[1].coord = wires[1].coords[1]
    /\ doc[2].inst = GNoNet /\ components[2].pins[1].coord = wires[2].coords[1]

---------------------------------------------------------------------------
(* Properties: the entries of the coordinate list stay where they are *)

\* C20 -- No in-place mutation after interning: while a view is processed,
\* a Coordinate object that is an entry of the coordinate list (a wire
\* vertex, an instance origin or a resolved pin position) keeps its x and
\* its y in every later step.
C20_NoMutationAfterInterning ==
    [][phase' # "new" =>
          \A c \in PoolObjects(coords) : heap'[c] = heap[c]]_vars

---------------------------------------------------------------------------
(* Properties: the pins of Oriented and Path components *)

\* the component a step has appended
Placed == components'[Len(components')]

\* the record the step has read
Read == doc'[Len(doc')].inst

\* the net name a pin record of the document carries
RecordNet(ip) == IF ip.net = NoNetTag THEN "" ELSE ip.net

\* the step has placed a component of this kind
Places1(kind) ==
    /\ phase = "instances"
    /\ Len(components') = Len(components) + 1
    /\ Placed.kind = kind

\* C21 -- Oriented pin resolution: when ABLTransistorMapper.useAsStencil
\* returns, the pin at position i of the component, the live pin matched to
\* anatomical pin i, has the coordinate of terminal i of the aligned template
\* triangle, and carries the net of the pin record it was made from.
C21_OrientedPinResolution ==
    [][Places1("Oriented") =>
        \A i \in 1..Len(Placed.pins) :
            /\ i <= Len(Placed.tpl)
            /\ Placed.pins[i].coord # 0
            /\ heap'[Placed.pins[i].coord] = Placed.tpl[i]
            /\ \E j \in 1..Len(Read.pins) :
                   /\ Read.pins[j].instTermNumber = Placed.pins[i].instTermNumber
                   /\ Read.pins[j].pinName = Placed.pins[i].name
                   /\ RecordNet(Read.pins[j]) = Placed.pins[i].inNet]_vars

\* the stencil the step has used
Stencil == Lookup(Read.libraryName, Read.cellName)

\* the name-or-terminal rule between a placed pin and a stencil pin
Corresponds(pin, stencilPin) ==
    IF pin.name # "" /\ stencilPin.name # ""
    THEN pin.name = stencilPin.name
    ELSE <<pin.instTermNumber>> = stencilPin.term

\* the pin records of the step's instance that a placed pin was made from
MadeFrom(pin) ==
    {j \in 1..Len(Read.pins) :
        /\ Read.pins[j].instTermNumber = pin.instTermNumber
        /\ Read.pins[j].pinName = pin.name
        /\ RecordNet(Read.pins[j]) = pin.inNet}

\* C22 -- Pin reordering: the pin list of a placed Path or Oriented component
\* has one pin for each pin of the stencil; the pin at position i is a live
\* pin of the record that has stencil pin i's name when both names are
\* non-empty and stencil pin i's terminal index otherwise; a live pin that
\* corresponds to no stencil pin is not in the component.
C22_PinReordering ==
    [][(Places1("Path") \/ Places1("Oriented")) =>
        /\ Len(Placed.pins) = Len(Stencil.pins)
        /\ \A i \in 1..Len(Placed.pins) :
               /\ Corresponds(Placed.pins[i], Stencil.pins[i])
               /\ MadeFrom(Placed.pins[i]) # {}
        /\ \A j \in 1..Len(Read.pins) :
               (\A i \in 1..Len(Stencil.pins) :
                    ~Corresponds([name |-> Read.pins[j].pinName,
                                  instTermNumber |-> Read.pins[j].instTermNumber],
                                 Stencil.pins[i]))
               => \A i \in 1..Len(Placed.pins) : j \notin MadeFrom(Placed.pins[i])]_vars

\* the resistor whose record lists terminals 3, 2, 1 is placed with
\* terminals 1, 2, and the capacitor with terminals 2, 1
C22_Witness ==
    /\ Len(components) = 2
    /\ doc[1].inst = R6 /\ doc[1].outcome = "placed"
    /\ components[1].pins[1].instTermNumber = 1
    /\ components[1].pins[2].instTermNumber = 2
    /\ doc[2].inst = Cap1 /\ doc[2].outcome = "placed"
    /\ components[2].pins[1].instTermNumber = 2

\* a stencil pin's local coordinate, scaled, turned counter-clockwise,
\* mirrored and moved to the origin, in this order
Nominal(local, pl) ==
    LET scaled == [x |-> (local.x * pl.xScale * SCALE) \div UNIT,
                   y |-> (local.y * pl.yScale * SCALE) \div UNIT]
        turned == Turned(scaled, Quarter(pl.angle + 720))
        flipped == [x |-> IF pl.mirrorY THEN -turned.x ELSE turned.x,
                    y |-> IF pl.mirrorX THEN -turned.y ELSE turned.y]
    IN  [x |-> flipped.x + (pl.x * SCALE) \div InRes,
         y |-> flipped.y + (pl.y * SCALE) \div InRes]

\* C23 -- Path transform order: each pin of a placed Path component has, as
\* its computed coordinate, the local coordinate of its stencil pin scaled by
\* (xScale * SCALE, yScale * SCALE), then rotated counter-clockwise by the
\* angle, then its y negated if mirrorX, then its x negated if mirrorY, then
\* moved by the origin (x * SCALE, y * SCALE).
C23_PathTransformOrder ==
    [][Places1("Path") =>
        \A i \in 1..Len(Placed.pins) :
            Placed.pins[i].computed
                = <<Nominal(Stencil.pins[i].coord, Placement(Read.placement))>>]_vars

\* the resistor turned by 90, stretched by 2 and mirrored about the x axis:
\* its second pin (1, 0) is computed at (2.54, -5.08)
C23_Witness ==
    /\ Len(components) >= 1
    /\ doc[1].inst = R7 /\ doc[1].outcome = "placed"
    /\ components[1].pins[2].computed = <<Coord(SCALE, -2 * SCALE)>>

---------------------------------------------------------------------------
(* Properties: the angle of a placed component *)

\* the step has placed a component of whatever kind
PlacesAny ==
    /\ phase = "instances"
    /\ Len(components') = Len(components) + 1

\* the angle of the placement the step has read
InputAngle == Placement(Read.placement).angle

\* -180 < angle <= 180
Normal(angle) == angle > -180 /\ angle <= 180

\* C24 -- Angle normalization: for every shape kind and every input angle,
\* the angle recorded on the placed component is the value in (-180, 180]
\* that differs from the input placement angle by a multiple of 360.
C24_AngleNormalized ==
    [][PlacesAny =>
        /\ Normal(Placed.angle)
        /\ (Placed.angle - InputAngle) % 360 = 0]_vars

\* C24 (amended) -- Angle normalization: the angle recorded on a placed Path
\* or Oriented component is the value in (-180, 180] that differs from the
\* input placement angle by a multiple of 360; the angle recorded on a placed
\* Node component is the value in (-180, 180] that differs from the input
\* angle plus 90 by a multiple of 360.
C24_AngleNormalizedByKind ==
    [][PlacesAny =>
        /\ Normal(Placed.angle)
        /\ Placed.kind \in {"Path", "Oriented"} =>
               (Placed.angle - InputAngle) % 360 = 0
        /\ Placed.kind = "Node" =>
               (Placed.angle - (InputAngle + 90)) % 360 = 0]_vars

\* a resistor at 900 is recorded at 180, a ground at -180 at -90
C24_Witness ==
    /\ Len(components) = 2
    /\ components[1].kind = "Path" /\ doc[1].inst.placement.angle = 900
    /\ components[1].angle = 180
    /\ components[2].kind = "Node" /\ doc[2].inst.placement.angle = -180
    /\ components[2].angle = -90

---------------------------------------------------------------------------
(* Properties: Component.cloneToPosition *)

\* C25 -- Component-level snapping is unbounded: after cloneToPosition, a
\* pin whose net has a wire with a vertex is on the object of a vertex of
\* least distance from its computed coordinate among all vertices of all
\* wires of that net, however far that is; a pin without net, or whose net
\* has no wire vertex, is on the entry of the coordinate list that is
\* value-equal to its computed coordinate.
C25_UnboundedSnapping ==
    [][Places1("Component") =>
        \A k \in 1..Len(Placed.pins) :
            LET p == Placed.pins[k]
                own == IF p.net = 0 THEN {} ELSE VerticesOf(p.net)
            IN  /\ p.computed # <<>>
                /\ own # {} =>
                       \E best \in own :
                           /\ p.coord = VertexAt(best)
                           /\ \A other \in own :
                                  FromComputed(p, best) <= FromComputed(p, other)
                /\ own = {} =>
                       /\ heap'[p.coord] = p.computed[1]
                       /\ p.coord \in PoolObjects(coords')]_vars

\* the connector at (5.08, -2.54) has both pins on the vertex (2.54, 0) of
\* the wire of VCC, more than 3 away from the nearer of them
C25_Witness ==
    /\ Len(wires) >= 1 /\ wires[1].pts = WireVCC.pts
    /\ Len(components) >= 1 /\ doc[1].inst = Far
    /\ components[1].pins[1].coord = wires[1].coords[2]
    /\ components[1].pins[2].coord = wires[1].coords[2]
    /\ Dist2(components[1].pins[1].computed[1], heap[wires[1].coords[2]])
           > 9 * MaxSearchDistance * MaxSearchDistance

---------------------------------------------------------------------------
(* Properties: printing to the sink *)

\* a step of printToStream that hands a line to the sink
WritesLine == phase' # "new" /\ out' # out

\* C26 -- Backpressure in printToStream: after a write to the sink has
\* returned false no further line is written until the sink has emitted
\* "drain"; a line is written only when the line before it has been settled,
\* one line per step and each the next line of the picture; and when every
\* wait is followed by a "drain", a printToStream that has started ends, with
\* the whole picture written unless the sink has emitted an error.
C26_Backpressure ==
    /\ [][sink.full => ~WritesLine]_vars
    /\ [][WritesLine =>
            /\ phase \in {"parsed", "printing"}
            /\ sink.drain = 0
            /\ out' = Append(out, SerializeAt(wires, components, heap,
                                              Len(out) + 1).text)]_vars
    /\ [](phase = "printed" => Len(out) = PictureLength /\ ~sink.full)
    /\ (phase \in {"printing", "waiting"} ~> phase \in {"printed", "rejected"})

\* printToStream waits for a "drain" in the middle of the picture
C26_Witness ==
    /\ phase = "waiting"
    /\ sink.full
    /\ sink.drain = 1
    /\ Len(out) \in 2..(PictureLength - 1)

\* C27 -- Sink errors end the output: an "error" of the sink while
\* printToStream waits for a pending line rejects printToStream, and a
\* rejected printToStream writes no further line; the "error" listener of a
\* line is on the sink only while that line is pending, so that a line that
\* has been accepted or has failed leaves no listener behind.
C27_SinkErrors ==
    /\ [][phase = "waiting" /\ phase' # "new" /\ sink'.error < sink.error
              /\ sink'.drain = sink.drain
            => phase' = "rejected" /\ out' = out]_vars
    /\ [][phase = "rejected" => ~WritesLine /\ phase' \in {"rejected", "new"}]_vars
    /\ [](sink.error = IF phase = "waiting" THEN 1 ELSE 0)

\* printToStream has been rejected before the picture was complete
C27_Witness ==
    /\ phase = "rejected"
    /\ Len(out) \in 1..(PictureLength - 1)
    /\ sink.error = 0

---------------------------------------------------------------------------
(* Properties: the coordinates that are drawn *)

\* the placed components that are drawn at a coordinate of their own: a
\* Transistor without anchor pin
OwnAnchor == {k \in 1..Len(components) :
                 /\ components[k].kind = "Oriented"
                 /\ components[k].anchorNr = 0
                 /\ components[k].anchorCoord # <<>>}

\* C28 -- Every drawn coordinate is pooled: every Coordinate a wire vertex
\* or a pin of a placed component refers to is an entry of the coordinate
\* list of the view, and so is the anchor coordinate a component is drawn at;
\* for an anchor that is an object of the component's own this needs at
\* least an entry of its x and y.
C28_DrawnCoordinatesPooled ==
    /\ Refs \subseteq PoolObjects(coords)
    /\ \A k \in OwnAnchor :
          \E a \in PoolObjects(coords) :
              Equals(heap[a], components[k].anchorCoord[1])

---------------------------------------------------------------------------
(* Properties: the stencil pin of a live pin *)

\* C29 -- Pin lookup consistency: in a placed Path or Oriented component the
\* pin at position i is the live pin the reordering has matched to stencil
\* pin i; the stencil pin whose local coordinate Pin.findPosition takes for
\* that live pin, the first with the live pin's terminal index, is stencil
\* pin i as well, also when the names and the terminal indices disagree.
C29_PinLookupConsistency ==
    [][(Places1("Path") \/ Places1("Oriented")) =>
        \A i \in 1..Len(Placed.pins) :
            HintIndex(Stencil.pins, Placed.pins[i].instTermNumber) = i]_vars

---------------------------------------------------------------------------
(* Properties: an instance without placement transform *)

\* x = 0, y = 0, angle 0, xScale = yScale = 1 and both mirror flags false
IdentityPlacement ==
    [x |-> 0, y |-> 0, angle |-> 0, xScale |-> 1, yScale |-> 1,
     mirrorX |-> FALSE, mirrorY |-> FALSE, scaling |-> SCALE]

\* C30 -- Absent placement transform means identity: a Path component placed
\* from an instance record without placement transform has each pin computed
\* where the identity placement puts the local coordinate of its stencil pin,
\* scaled to the drawing and neither rotated nor mirrored, and is itself
\* neither mirrored nor rotated.
C30_AbsentPlacementIsIdentity ==
    [][Places1("Path") /\ ~Read.placement.present =>
        /\ \A i \in 1..Len(Placed.pins) :
               Placed.pins[i].computed
                   = <<Nominal(Stencil.pins[i].coord, IdentityPlacement)>>
        /\ Placed.angle = 0
        /\ ~Placed.mirrorX
        /\ ~Placed.mirrorY]_vars

====
